---------------------------- MODULE Spec2Model ----------------------------
(***************************************************************************)
(* CeraSim: the SaniCer sanitary-ware factory (src/cerasim/factory.py) as  *)
(* a state machine over the discrete-event kernel it runs on.              *)
(*                                                                         *)
(* One step of the model is one step of the event loop: the head of the    *)
(* event queue is popped, `now` moves to its time, the callbacks of the    *)
(* event run and the process waiting on it runs to its next yield.  Every  *)
(* `yield` of factory.py is therefore a process position (pc) here.        *)
(*                                                                         *)
(* Virtual time is counted in whole hours.  Quantities are integers:       *)
(* finished goods and slip in units, raw materials in model tonnes.  The   *)
(* configuration of config.py is kept in shape (same keys, same order      *)
(* relations between initial stock, reorder point, delivery size and       *)
(* capacity) with numbers small enough to explore; the random draws        *)
(* (processing time, lead time, order size ...) range over small sets.     *)
(*                                                                         *)
(* A metrics call whose stage name is not a key of the metrics log raises  *)
(* KeyError in the source.  The model records that in `metrics_fault` and  *)
(* follows the pipeline beyond that call, so that the stages behind it     *)
(* can be examined.  A timeout, put or get the scheduler refuses (a        *)
(* negative delay, an amount that is not positive or beyond the            *)
(* container's capacity) is recorded in `scheduler_fault` the same way.    *)
(*                                                                         *)
(* The initial state is the factory as its constructor leaves it;          *)
(* register_processes is a step of its own.  Spec follows one run.         *)
(* SpecTwin steps two runs of one scenario and seed side by side, the      *)
(* second kept whole in `twin`.  SpecDays follows run_scenario over        *)
(* SIM_DAYS days along one stream of draws.  SpecUnglazed is Spec on a     *)
(* product table whose products need no glaze (`products` holds the table  *)
(* the factory reads).                                                     *)
(***************************************************************************)
EXTENDS Integers, Sequences, FiniteSets, TLC

VARIABLES
    scenario,            \* key of SCENARIOS the factory was constructed with
    running,             \* TRUE while env.run(until) is dispatching events
    now,                 \* env.now
    queue,               \* env._queue: scheduled events, in dispatch order
    containers,          \* raw_mat[m], slip_buffer, fg[p]: simpy.Container
    stores,              \* cast_store .. fired_store, order_queue: simpy.Store
    machines,            \* machines[key]: simpy.Resource
    scheduler_fault,     \* a timeout, put or get was refused by the scheduler
    proc,                \* position and locals of every registered process
    dproc,               \* the _supplier_delivery processes spawned so far
    pending_replen,      \* self._pending_replen
    machine_busy_hr,     \* self._machine_busy_hr
    daily_prod,          \* self._daily_prod
    order_counter,       \* demand_generator's local `counter`
    batches,             \* every ProductionBatch object created (by serial)
    orders,              \* metrics.orders (the CustomerOrder objects)
    completed_batches,   \* metrics.completed_batches (serials into batches)
    deliveries,          \* metrics.deliveries
    breakdowns,          \* metrics.breakdowns
    stockout_events,     \* metrics.stockout_events
    partial_fulfils,     \* metrics.partial_fulfils
    disruption_hours,    \* metrics.disruption_hours
    stage_log,           \* metrics.stage_log
    stall_log,           \* metrics.stall_log
    daily_snapshots,     \* metrics.daily_snapshots
    metrics_fault,       \* a metrics call raised KeyError
    entropy,             \* the operating system's random stream uuid4 reads
    products,            \* config.PRODUCTS as the factory module finds it
    day,                 \* run_scenario's loop variable: the calls of run() made
    twin                 \* a second run stepped beside this one, or NoTwin

kernel == <<now, queue, containers, stores, machines, scheduler_fault>>
factory == <<proc, dproc, pending_replen, machine_busy_hr, daily_prod, order_counter>>
heap == <<batches, orders>>
metrics == <<completed_batches, deliveries, breakdowns, stockout_events,
             partial_fulfils, disruption_hours, stage_log, stall_log,
             daily_snapshots, metrics_fault>>
vars == <<scenario, running, kernel, factory, heap, metrics, entropy, products,
          day, twin>>

-----------------------------------------------------------------------------
(* Bounds of the exploration.                                              *)

\* env.run(until = Horizon)
Horizon == 13
\* the kaolin disruption window of the supply_disruption scenario, in hours
DisruptStart == 4
DisruptEnd == 8
\* fulfilment workers registered
NumFulfilment == 2
\* machine breakdowns drawn in one run
MaxBreakdowns == 1
\* latest hour of the order stamps is_overdue is tried on
MaxStampHour == 2

-----------------------------------------------------------------------------
(* config.py                                                               *)

None == -1

HOURS_PER_DAY == 24
BATCH_SIZE_UNITS == 50

\* supply_monitor's review period, the lead-time floor and the stall poll
REVIEW_PERIOD == 4
MIN_LEAD_TIME == 4
STALL_POLL == 1
MAX_PENDING == 2

PRODUCT_KEYS == <<"ONE-PIECE-STD">>
ProductSet == {PRODUCT_KEYS[i] : i \in 1..Len(PRODUCT_KEYS)}

PRODUCTS == [p \in ProductSet |-> [needs_glaze |-> TRUE, glaze_per_batch |-> 2]]

\* BODY_COMPOSITION, in dictionary order; mat_per_batch of slip_preparation
BODY_MATERIALS == <<"clay", "kaolin">>
mat_per_batch == [clay |-> 2, kaolin |-> 2]

\* SUPPLIERS, in dictionary order
MATERIALS == <<"clay", "kaolin", "glaze">>
MaterialSet == {MATERIALS[i] : i \in 1..Len(MATERIALS)}
SUPPLIERS ==
    [clay   |-> [delivery_qty_t |-> 7, reorder_point_t |-> 8, max_stock_t |-> 20],
     kaolin |-> [delivery_qty_t |-> 3, reorder_point_t |-> 5, max_stock_t |-> 16],
     glaze  |-> [delivery_qty_t |-> 4, reorder_point_t |-> 4, max_stock_t |-> 12]]
INITIAL_INVENTORY == [clay |-> 14, kaolin |-> 8, glaze |-> 4]

MACHINE_KEYS == <<"slip_prep", "casting", "demolding", "fettling", "glazing",
                  "kiln", "finishing">>
MachineSet == {MACHINE_KEYS[i] : i \in 1..Len(MACHINE_KEYS)}
MACHINES ==
    [slip_prep |-> [count |-> 2], casting   |-> [count |-> 1],
     demolding |-> [count |-> 1], fettling  |-> [count |-> 1],
     glazing   |-> [count |-> 2], kiln      |-> [count |-> 1],
     finishing |-> [count |-> 1]]

FG_INITIAL_UNITS == [p \in ProductSet |-> 20]
FG_MAX_UNITS == [p \in ProductSet |-> 60]
SLIP_CAPACITY == [capacity |-> 100, init |-> 50]

\* QUALITY, the rates in percent
QUALITY == [grade_a_rate |-> 75, grade_b_rate |-> 15, reject_rate |-> 10,
            leak_test_pass_rate |-> 98, flush_test_pass_rate |-> 97]

DEMAND == [std_lead_time_days |-> 7, express_lead_time_days |-> 3]

\* SCENARIOS: safety_stock_factor is kept as halves (2 is 1.0, 3 is 1.5)
SCENARIOS ==
    [baseline          |-> [extra_kilns |-> 0, safety_stock_halves |-> 2,
                            kaolin_disruption |-> <<>>],
     supply_disruption |-> [extra_kilns |-> 0, safety_stock_halves |-> 2,
                            kaolin_disruption |-> <<DisruptStart, DisruptEnd>>],
     optimised         |-> [extra_kilns |-> 1, safety_stock_halves |-> 3,
                            kaolin_disruption |-> <<>>]]
ScenarioSet == {"baseline", "supply_disruption", "optimised"}

Min(a, b) == IF a <= b THEN a ELSE b

-----------------------------------------------------------------------------
(* The event kernel (simpy.Environment and its events).                    *)

\* An entry of the event queue: the process `p` to resume at time `t`, the
\* value `v` the event carries, and whether it was scheduled URGENT (a
\* process start) or NORMAL.
Event(t, p, v) == [t |-> t, urgent |-> FALSE, p |-> p, v |-> v]
Initialize(t, p) == [t |-> t, urgent |-> TRUE, p |-> p, v |-> 0]

\* The queue is ordered by (time, priority, insertion): `e` stays ahead of a
\* newly scheduled `n`.
Before(e, n) == e.t < n.t \/ (e.t = n.t /\ (e.urgent \/ ~n.urgent))

Schedule(q, n) ==
    LET i == Cardinality({j \in 1..Len(q) : Before(q[j], n)})
    IN  SubSeq(q, 1, i) \o <<n>> \o SubSeq(q, i + 1, Len(q))

\* The program state handed through the statements of one process step.
State ==
    [scenario |-> scenario, running |-> running, now |-> now, queue |-> queue,
     containers |-> containers, stores |-> stores, machines |-> machines,
     scheduler_fault |-> scheduler_fault,
     proc |-> proc, dproc |-> dproc, pending_replen |-> pending_replen,
     machine_busy_hr |-> machine_busy_hr, daily_prod |-> daily_prod,
     order_counter |-> order_counter, batches |-> batches, orders |-> orders,
     completed_batches |-> completed_batches, deliveries |-> deliveries,
     breakdowns |-> breakdowns, stockout_events |-> stockout_events,
     partial_fulfils |-> partial_fulfils, disruption_hours |-> disruption_hours,
     stage_log |-> stage_log, stall_log |-> stall_log,
     daily_snapshots |-> daily_snapshots, metrics_fault |-> metrics_fault,
     entropy |-> entropy, products |-> products, day |-> day, twin |-> twin]

\* The step's outcome becomes the next state.
Apply(s) ==
    /\ scenario' = s.scenario /\ running' = s.running /\ now' = s.now
    /\ queue' = s.queue /\ containers' = s.containers /\ stores' = s.stores
    /\ machines' = s.machines /\ proc' = s.proc /\ dproc' = s.dproc
    /\ pending_replen' = s.pending_replen
    /\ machine_busy_hr' = s.machine_busy_hr /\ daily_prod' = s.daily_prod
    /\ order_counter' = s.order_counter /\ batches' = s.batches
    /\ orders' = s.orders /\ completed_batches' = s.completed_batches
    /\ deliveries' = s.deliveries /\ breakdowns' = s.breakdowns
    /\ stockout_events' = s.stockout_events
    /\ partial_fulfils' = s.partial_fulfils
    /\ disruption_hours' = s.disruption_hours /\ stage_log' = s.stage_log
    /\ stall_log' = s.stall_log /\ daily_snapshots' = s.daily_snapshots
    /\ metrics_fault' = s.metrics_fault
    /\ scheduler_fault' = s.scheduler_fault
    /\ entropy' = s.entropy /\ products' = s.products /\ day' = s.day
    /\ twin' = s.twin

\* event.succeed(v): the event is scheduled at the current time.
Succeed(k, p, v) == [k EXCEPT !.queue = Schedule(@, Event(k.now, p, v))]

\* env.timeout(d), yielded by p; a negative delay is refused
Timeout(k, p, d) ==
    [k EXCEPT !.queue = Schedule(@, Event(k.now + d, p, 0)),
              !.scheduler_fault = @ \/ d < 0]

\* env.process(...): the new process starts at the current time, URGENT
StartProcess(k, p) == [k EXCEPT !.queue = Schedule(@, Initialize(k.now, p))]

(* simpy.Container *)
\* an amount a container accepts in a request: positive, within its capacity
Admissible(c, amount) == amount > 0 /\ amount <= c.capacity

CanPut(c, amount) == c.capacity - c.level >= amount
CanGet(c, amount) == c.level >= amount

\* Container._trigger_put: the put requests are served in arrival order
\* until the first that does not fit.
RECURSIVE TriggerPut(_, _)
TriggerPut(k, c) ==
    LET C == k.containers[c] IN
    IF C.put_queue = <<>> THEN k
    ELSE LET h == Head(C.put_queue) IN
         IF CanPut(C, h.amount)
         THEN TriggerPut(Succeed([k EXCEPT !.containers[c].level = @ + h.amount,
                                           !.containers[c].put_queue = Tail(@)],
                                 h.p, 0), c)
         ELSE k

\* Container._trigger_get
RECURSIVE TriggerGet(_, _)
TriggerGet(k, c) ==
    LET C == k.containers[c] IN
    IF C.get_queue = <<>> THEN k
    ELSE LET h == Head(C.get_queue) IN
         IF CanGet(C, h.amount)
         THEN TriggerGet(Succeed([k EXCEPT !.containers[c].level = @ - h.amount,
                                           !.containers[c].taken = @ + h.amount,
                                           !.containers[c].get_queue = Tail(@)],
                                 h.p, 0), c)
         ELSE k

\* container.put(amount) called by p: the request joins the put queue and
\* the queue is served at once.
ContainerPut(k, c, p, amount) ==
    TriggerPut([k EXCEPT !.containers[c].put_queue =
                              Append(@, [p |-> p, amount |-> amount]),
                         !.scheduler_fault =
                              @ \/ ~Admissible(k.containers[c], amount)], c)

\* container.get(amount) called by p
ContainerGet(k, c, p, amount) ==
    TriggerGet([k EXCEPT !.containers[c].get_queue =
                              Append(@, [p |-> p, amount |-> amount]),
                         !.scheduler_fault =
                              @ \/ ~Admissible(k.containers[c], amount)], c)

(* simpy.Store (unbounded) *)
\* Store._trigger_get handing out the newest item
TriggerStoreGet_newest(k, s) ==
    LET S == k.stores[s] IN
    IF S.get_queue # <<>> /\ S.items # <<>>
    THEN Succeed([k EXCEPT !.stores[s].items = SubSeq(@, 1, Len(@) - 1),
                           !.stores[s].get_queue = Tail(@)],
                 Head(S.get_queue), S.items[Len(S.items)])
    ELSE k

\* Store._trigger_get: the oldest waiting getter receives the oldest item.
TriggerStoreGet(k, s) ==
    LET S == k.stores[s] IN
    IF S.get_queue # <<>> /\ S.items # <<>>
    THEN Succeed([k EXCEPT !.stores[s].items = Tail(@),
                           !.stores[s].get_queue = Tail(@)],
                 Head(S.get_queue), Head(S.items))
    ELSE k

\* store.put(item) called by p: never blocks
StorePut(k, s, p, item) ==
    Succeed([k EXCEPT !.stores[s].items = Append(@, item)], p, 0)

\* store.get() called by p
StoreGet(k, s, p) ==
    TriggerStoreGet([k EXCEPT !.stores[s].get_queue = Append(@, p)], s)

(* simpy.Resource *)
MachineIndex(key) == CHOOSE i \in 1..Len(MACHINE_KEYS) : MACHINE_KEYS[i] = key

\* Resource._trigger_put: the oldest waiting request is granted a free slot.
TriggerRequest(k, m) ==
    LET M == k.machines[m] IN
    IF M.queue # <<>> /\ Len(M.users) < M.capacity
    THEN Succeed([k EXCEPT !.machines[m].users = Append(@, Head(M.queue)),
                           !.machines[m].queue = Tail(@)],
                 Head(M.queue), 0)
    ELSE k

\* resource.request() called by p
Request(k, m, p) ==
    TriggerRequest([k EXCEPT !.machines[m].queue = Append(@, p)], m)

\* Leaving the `with` block: resource.release(req).  The slot is returned
\* at once; the release event, once dispatched, serves the waiting requests.
Release(k, m, p) ==
    LET M == k.machines[m]
        keep == SelectSeq(M.users, LAMBDA u : u # p)
    IN  [k EXCEPT !.machines[m].users = keep,
                  !.queue = Schedule(@, Event(k.now, <<"release", MachineIndex(m)>>, 0))]

-----------------------------------------------------------------------------
(* The random draws, as the sets they range over here.                     *)

\* _proc_time: base_t, and repair_t when the machine broke down (0: it did not)
ProcDraws(key) ==
    {[base |-> 1, repair |-> r] : r \in IF key = "kiln" THEN {0, 1} ELSE {0}}

\* _supplier_delivery: the normal variate, whether the supplier is on time,
\* and the late penalty factor
LeadDraws(mat) ==
    CASE mat = "kaolin" -> {[raw |-> 2, on_time |-> TRUE, penalty |-> 1],
                            [raw |-> 7, on_time |-> FALSE, penalty |-> 2]}
      [] mat = "clay"   -> {[raw |-> 6, on_time |-> TRUE, penalty |-> 1]}
      [] OTHER          -> {[raw |-> 3, on_time |-> TRUE, penalty |-> 1]}

\* demand_generator: the inter-arrival time and the order drawn
ArrivalDraws == {3}
OrderDraws ==
    {[product |-> PRODUCT_KEYS[1], quantity_units |-> 5, is_express |-> TRUE],
     [product |-> PRODUCT_KEYS[1], quantity_units |-> 25, is_express |-> FALSE]}

-----------------------------------------------------------------------------
(* CeramicFactory.__init__ and register_processes                          *)

\* capacity of machines[key] without the scenario's extra kilns
Capacity_base(scn, key) == MACHINES[key].count

\* capacity of machines[key]
Capacity(scn, key) ==
    MACHINES[key].count + (IF key = "kiln" THEN SCENARIOS[scn].extra_kilns ELSE 0)

\* the number of processes register_processes starts for each method
WorkerCount(scn, kind) ==
    CASE kind = "supply_monitor" -> 1
      [] kind = "slip_preparation" -> MACHINES["slip_prep"].count
      [] kind = "pressure_casting" -> MACHINES["casting"].count
      [] kind = "demolding_and_drying" -> MACHINES["demolding"].count
      [] kind = "fettling" -> MACHINES["fettling"].count
      [] kind = "spray_glazing" -> MACHINES["glazing"].count
      [] kind = "kiln_firing" -> MACHINES["kiln"].count + SCENARIOS[scn].extra_kilns
      [] kind = "finishing" -> MACHINES["finishing"].count
      [] kind = "demand_generator" -> 1
      [] kind = "order_fulfilment" -> NumFulfilment
      [] kind = "daily_recorder" -> 1

\* the long-lived processes, in the order register_processes starts them
\* (the bootstrap deliveries come right after the supply monitor)
PIPELINE == <<"slip_preparation", "pressure_casting", "demolding_and_drying",
              "fettling", "spray_glazing", "kiln_firing", "finishing",
              "demand_generator", "order_fulfilment", "daily_recorder">>
KindSet == {"supply_monitor"} \cup {PIPELINE[i] : i \in 1..Len(PIPELINE)}

Starts(scn, kind) ==
    [i \in 1..WorkerCount(scn, kind) |-> Initialize(0, <<kind, i>>)]

RECURSIVE PipelineStarts(_, _)
PipelineStarts(scn, i) ==
    IF i > Len(PIPELINE) THEN <<>>
    ELSE Starts(scn, PIPELINE[i]) \o PipelineStarts(scn, i + 1)

ProcSet(scn) ==
    UNION {{<<kind, i>> : i \in 1..WorkerCount(scn, kind)} : kind \in KindSet}

\* `taken` is the history of the container: the total its gets have received
Container(capacity, init) ==
    [capacity |-> capacity, level |-> init, taken |-> 0,
     put_queue |-> <<>>, get_queue |-> <<>>]

\* raw_mat[mat] without `init = min(init, max_stock_t)`
RawMaterial_unclamped(scn, mat) ==
    Container(SUPPLIERS[mat].max_stock_t,
              (INITIAL_INVENTORY[mat] * SCENARIOS[scn].safety_stock_halves) \div 2)

\* raw_mat[mat]
RawMaterial(scn, mat) ==
    Container(SUPPLIERS[mat].max_stock_t,
              Min((INITIAL_INVENTORY[mat] * SCENARIOS[scn].safety_stock_halves) \div 2,
                  SUPPLIERS[mat].max_stock_t))

STORE_KEYS == {"cast_store", "demolded_store", "fettled_store", "glazed_store",
               "fired_store", "order_queue"}

\* a _supplier_delivery process and its locals
DeliveryProcess(mat) ==
    [material |-> mat, pc |-> "start", ordered_at |-> None, on_time |-> TRUE,
     qty |-> 0]

\* the value of `twin` when the run is followed alone
NoTwin == <<>>
Twinned == DOMAIN twin # {}

\* uuid4 draws its identifiers from the operating system's random stream,
\* which random.seed does not reach: the run reads one of these streams
EntropyStreams == {1, 2}

\* CeramicFactory.__init__ on a fresh Environment
CeramicFactory(scn, stream) ==
    [scenario |-> scn, running |-> TRUE, now |-> 0, queue |-> <<>>,
     containers |->
         [c \in MaterialSet \cup {"slip_buffer"} \cup ProductSet |->
            IF c \in MaterialSet THEN RawMaterial(scn, c)
            ELSE IF c = "slip_buffer"
                 THEN Container(SLIP_CAPACITY.capacity, SLIP_CAPACITY.init)
                 ELSE Container(FG_MAX_UNITS[c], FG_INITIAL_UNITS[c])],
     stores |-> [st \in STORE_KEYS |-> [items |-> <<>>, get_queue |-> <<>>]],
     machines |-> [key \in MachineSet |->
                     [capacity |-> Capacity(scn, key), users |-> <<>>,
                      queue |-> <<>>]],
     proc |-> <<>>, dproc |-> <<>>,
     pending_replen |-> [m \in MaterialSet |-> 0],
     machine_busy_hr |-> [key \in MachineSet |-> 0],
     daily_prod |-> [p \in ProductSet |-> 0],
     order_counter |-> 0, batches |-> <<>>, orders |-> <<>>,
     completed_batches |-> <<>>, deliveries |-> <<>>, breakdowns |-> <<>>,
     stockout_events |-> <<>>, partial_fulfils |-> 0, disruption_hours |-> 0,
     stage_log |-> [st \in {"body_prep", "forming", "glazing", "kiln", "finishing"} |-> <<>>],
     stall_log |-> [st \in {"body_prep", "glazing"} |-> <<>>],
     daily_snapshots |-> <<>>, metrics_fault |-> FALSE, scheduler_fault |-> FALSE,
     entropy |-> stream, products |-> PRODUCTS, day |-> 0, twin |-> NoTwin]

\* register_processes: every process is started at the current time
register_processes(s) ==
    [s EXCEPT !.queue = @ \o Starts(s.scenario, "supply_monitor")
                          \o [i \in 1..Len(MATERIALS) |->
                                Initialize(0, <<"supplier_delivery", i>>)]
                          \o PipelineStarts(s.scenario, 1),
              !.proc = [p \in ProcSet(s.scenario) |->
                          [pc |-> "start", b |-> 0, t |-> 0, j |-> 0]],
              !.dproc = [i \in 1..Len(MATERIALS) |-> DeliveryProcess(MATERIALS[i])]]

\* no process has been registered with the environment
Unregistered == DOMAIN proc = {}

\* the variables hold the program state s
Is(s) ==
    /\ scenario = s.scenario /\ running = s.running /\ now = s.now
    /\ queue = s.queue /\ containers = s.containers /\ stores = s.stores
    /\ machines = s.machines /\ proc = s.proc /\ dproc = s.dproc
    /\ pending_replen = s.pending_replen
    /\ machine_busy_hr = s.machine_busy_hr /\ daily_prod = s.daily_prod
    /\ order_counter = s.order_counter /\ batches = s.batches
    /\ orders = s.orders /\ completed_batches = s.completed_batches
    /\ deliveries = s.deliveries /\ breakdowns = s.breakdowns
    /\ stockout_events = s.stockout_events
    /\ partial_fulfils = s.partial_fulfils
    /\ disruption_hours = s.disruption_hours /\ stage_log = s.stage_log
    /\ stall_log = s.stall_log /\ daily_snapshots = s.daily_snapshots
    /\ metrics_fault = s.metrics_fault
    /\ scheduler_fault = s.scheduler_fault
    /\ entropy = s.entropy /\ products = s.products /\ day = s.day
    /\ twin = s.twin

\* a factory has been constructed; nothing is registered yet
Init == \E scn \in ScenarioSet : Is(CeramicFactory(scn, 1))

-----------------------------------------------------------------------------
(* MetricsCollector                                                        *)

\* record_stage: stage_log[stage].append((now, qty)); KeyError on an unknown stage
record_stage(s, stage, qty) ==
    IF stage \in DOMAIN s.stage_log
    THEN [s EXCEPT !.stage_log[stage] = Append(@, <<s.now, qty>>)]
    ELSE [s EXCEPT !.metrics_fault = TRUE]

\* record_stall: one entry per hour at most; KeyError on an unknown stage
record_stall(s, stage) ==
    IF stage \in DOMAIN s.stall_log
    THEN LET log == s.stall_log[stage] IN
         IF log = <<>> \/ s.now - log[Len(log)] >= 1
         THEN [s EXCEPT !.stall_log[stage] = Append(@, s.now)]
         ELSE s
    ELSE [s EXCEPT !.metrics_fault = TRUE]

-----------------------------------------------------------------------------
(* Helpers of the stage processes                                          *)

Goto(s, p, pc) == [s EXCEPT !.proc[p].pc = pc]

\* _proc_time(key) with the timeout yielded after the `with` block was left
proc_time_unheld(s, p, key, d) ==
    LET t  == d.base + d.repair
        s1 == IF d.repair > 0
              THEN [s EXCEPT !.breakdowns =
                        Append(@, [machine_id |-> key, occurred_at |-> s.now + d.base,
                                   repair_duration |-> d.repair])]
              ELSE s
    IN  Timeout(Release([s1 EXCEPT !.proc[p].t = t, !.proc[p].pc = "proc"], key, p),
                p, t)

\* _proc_time(key), then `yield env.timeout(t)` inside the `with` block
proc_time(s, p, key, d) ==
    LET t  == d.base + d.repair
        s1 == IF d.repair > 0
              THEN [s EXCEPT !.breakdowns =
                        Append(@, [machine_id |-> key, occurred_at |-> s.now + d.base,
                                   repair_duration |-> d.repair])]
              ELSE s
    IN  Timeout([s1 EXCEPT !.proc[p].t = t, !.proc[p].pc = "proc"], p, t)

\* the busy hours booked once for the work and once for the line
leave_machine_booked_twice(s, p, key) ==
    Release([s EXCEPT !.machine_busy_hr[key] = @ + 2 * s.proc[p].t], key, p)

\* after the timeout: the busy hours are added and the `with` block is left
leave_machine(s, p, key) ==
    Release([s EXCEPT !.machine_busy_hr[key] = @ + s.proc[p].t], key, p)

-----------------------------------------------------------------------------
(* Supply-chain processes                                                  *)

\* reorder_pt = reorder_point_t * safety_stock_factor; level < reorder_pt
BelowReorderPoint(s, mat) ==
    2 * s.containers[mat].level <
        SUPPLIERS[mat].reorder_point_t * SCENARIOS[s.scenario].safety_stock_halves

\* the strike test with the window's first hour left out
Disrupted_open(s, mat) ==
    LET disruption == SCENARIOS[s.scenario].kaolin_disruption IN
    /\ disruption # <<>>
    /\ mat = "kaolin"
    /\ disruption[1] < s.now
    /\ s.now <= disruption[2]

\* the kaolin strike covers the current time
Disrupted(s, mat) ==
    LET disruption == SCENARIOS[s.scenario].kaolin_disruption IN
    /\ disruption # <<>>
    /\ mat = "kaolin"
    /\ disruption[1] <= s.now
    /\ s.now <= disruption[2]

\* the order condition with `<= 2` for `< 2`
MayOrder_inclusive(s, mat) ==
    2 * s.containers[mat].level <
        SUPPLIERS[mat].reorder_point_t * SCENARIOS[s.scenario].safety_stock_halves
    /\ s.pending_replen[mat] <= MAX_PENDING

\* the order condition of supply_monitor
MayOrder(s, mat) == BelowReorderPoint(s, mat) /\ s.pending_replen[mat] < MAX_PENDING

\* the review counting one hour of disruption per tick
RECURSIVE review_hourly(_, _)
review_hourly(s, i) ==
    IF i > Len(MATERIALS) THEN s
    ELSE LET mat == MATERIALS[i] IN
         IF Disrupted(s, mat)
         THEN review_hourly([s EXCEPT !.disruption_hours = @ + 1], i + 1)
         ELSE IF MayOrder(s, mat)
              THEN review_hourly(StartProcess(
                              [s EXCEPT !.pending_replen[mat] = @ + 1,
                                        !.dproc = Append(@, DeliveryProcess(mat))],
                              <<"supplier_delivery", Len(s.dproc) + 1>>),
                          i + 1)
              ELSE review_hourly(s, i + 1)

\* the body of supply_monitor's `for mat, cfg in SUPPLIERS.items()`, from the
\* i-th material on
RECURSIVE review(_, _)
review(s, i) ==
    IF i > Len(MATERIALS) THEN s
    ELSE LET mat == MATERIALS[i] IN
         IF Disrupted(s, mat)
         THEN review([s EXCEPT !.disruption_hours = @ + REVIEW_PERIOD], i + 1)
         ELSE IF MayOrder(s, mat)
              THEN review(StartProcess(
                              [s EXCEPT !.pending_replen[mat] = @ + 1,
                                        !.dproc = Append(@, DeliveryProcess(mat))],
                              <<"supplier_delivery", Len(s.dproc) + 1>>),
                          i + 1)
              ELSE review(s, i + 1)

supply_monitor(s, p) ==
    IF s.proc[p].pc = "start"
    THEN Timeout(Goto(s, p, "tick"), p, REVIEW_PERIOD)
    ELSE Timeout(review(s, 1), p, REVIEW_PERIOD)

\* _short_id(): the next identifier uuid4 makes of the entropy stream
short_id(s) == <<s.entropy, Len(s.batches) + Len(s.deliveries) + 1>>

\* the delivery logged with a quantity computed anew after the put
log_delivery_after_put(s, k) ==
    LET me == s.dproc[k]
        C  == s.containers[me.material]
    IN
    [s EXCEPT !.deliveries =
                  Append(@, [delivery_id |-> short_id(s),
                             material |-> me.material,
                             quantity_tonnes |->
                                 Min(SUPPLIERS[me.material].delivery_qty_t,
                                     C.capacity - C.level),
                             ordered_at |-> me.ordered_at, delivered_at |-> s.now,
                             on_time |-> me.on_time]),
              !.pending_replen[me.material] = @ - 1,
              !.dproc[k].pc = "done"]

\* the record put at the head of the log
log_delivery_at_head(s, k) ==
    LET me == s.dproc[k] IN
    [s EXCEPT !.deliveries =
                  <<[delivery_id |-> short_id(s),
                     material |-> me.material, quantity_tonnes |-> me.qty,
                     ordered_at |-> me.ordered_at, delivered_at |-> s.now,
                     on_time |-> me.on_time]>> \o @,
              !.pending_replen[me.material] = @ - 1,
              !.dproc[k].pc = "done"]

\* the tail of _supplier_delivery: the record is logged, pending decremented
log_delivery(s, k) ==
    LET me == s.dproc[k] IN
    [s EXCEPT !.deliveries =
                  Append(@, [delivery_id |-> short_id(s),
                             material |-> me.material, quantity_tonnes |-> me.qty,
                             ordered_at |-> me.ordered_at, delivered_at |-> s.now,
                             on_time |-> me.on_time]),
              !.pending_replen[me.material] = @ - 1,
              !.dproc[k].pc = "done"]

\* the quantity of a delivery that ignores the room left
delivery_qty_nominal(s, mat) == SUPPLIERS[mat].delivery_qty_t

\* the quantity a delivery puts: min(delivery_qty_t, capacity - level)
delivery_qty(s, mat) ==
    Min(SUPPLIERS[mat].delivery_qty_t,
        s.containers[mat].capacity - s.containers[mat].level)

\* the lead time without the 4 hour floor
lead_time_unclamped(d) == IF d.on_time THEN d.raw ELSE d.raw * d.penalty

\* lead_t = max(4.0, normalvariate(..)), times the penalty when late
lead_time(d) ==
    LET lead_t == IF d.raw > MIN_LEAD_TIME THEN d.raw ELSE MIN_LEAD_TIME
    IN  IF d.on_time THEN lead_t ELSE lead_t * d.penalty

supplier_delivery(s, p, d) ==
    LET k  == p[2]
        me == s.dproc[k]
    IN  CASE me.pc = "start" ->
               Timeout([s EXCEPT !.dproc[k].ordered_at = s.now,
                                 !.dproc[k].on_time = d.on_time,
                                 !.dproc[k].pc = "transit"], p, lead_time(d))
          [] me.pc = "transit" ->
               LET qty == delivery_qty(s, me.material)
                   s1  == [s EXCEPT !.dproc[k].qty = qty, !.dproc[k].pc = "put"]
               IN  IF qty > 0 THEN ContainerPut(s1, me.material, p, qty)
                   ELSE log_delivery(s1, k)
          [] me.pc = "put" -> log_delivery(TriggerGet(s, me.material), k)

-----------------------------------------------------------------------------
(* Production stages                                                       *)

\* all(raw_mat[m].level >= qty for m, qty in mat_per_batch.items())
BodyAvailable(s) ==
    \A i \in 1..Len(BODY_MATERIALS) :
        s.containers[BODY_MATERIALS[i]].level >= mat_per_batch[BODY_MATERIALS[i]]

\* `yield raw_mat[m].get(qty)` for the i-th body material
get_body(s, p, i) ==
    ContainerGet([s EXCEPT !.proc[p].pc = "get", !.proc[p].j = i],
                 BODY_MATERIALS[i], p, mat_per_batch[BODY_MATERIALS[i]])

\* the head of slip_preparation's loop: stall and poll, or start taking
slip_loop(s, p) ==
    IF BodyAvailable(s)
    THEN get_body(s, p, 1)
    ELSE Timeout(Goto(record_stall(s, "slip_prep"), p, "poll"), p, STALL_POLL)

slip_preparation(s, p, d) ==
    LET me == s.proc[p] IN
    CASE me.pc \in {"start", "poll"} -> slip_loop(s, p)
      [] me.pc = "get" ->
           LET s1 == TriggerPut(s, BODY_MATERIALS[me.j]) IN
           IF me.j < Len(BODY_MATERIALS)
           THEN get_body(s1, p, me.j + 1)
           ELSE Request(Goto(s1, p, "req"), "slip_prep", p)
      [] me.pc = "req" -> proc_time(s, p, "slip_prep", d)
      [] me.pc = "proc" ->
           ContainerPut(Goto(leave_machine(s, p, "slip_prep"), p, "put"),
                        "slip_buffer", p, BATCH_SIZE_UNITS)
      [] me.pc = "put" ->
           slip_loop(record_stage(TriggerGet(s, "slip_buffer"), "slip_prep",
                                  BATCH_SIZE_UNITS), p)

ProductionBatch(id, product, quantity, at) ==
    [batch_id |-> id, product |-> product, quantity_units |-> quantity,
     created_at |-> at, casting_done |-> at, demolded_at |-> None,
     fettled_at |-> None, glazing_done |-> None, firing_done |-> None,
     finished_at |-> None, grade_a_units |-> 0, grade_b_units |-> 0,
     reject_units |-> 0, leak_test_pass |-> 0, flush_test_pass |-> 0]

ProductIndex(product) == CHOOSE i \in 1..Len(PRODUCT_KEYS) : PRODUCT_KEYS[i] = product

\* `product` is what _choose_product returned
pressure_casting(s, p, d, product) ==
    LET me   == s.proc[p]
        take == ContainerGet(Goto(s, p, "get"), "slip_buffer", p, BATCH_SIZE_UNITS)
    IN
    CASE me.pc = "start" -> take
      [] me.pc = "get" ->
           Request([TriggerPut(s, "slip_buffer") EXCEPT
                        !.proc[p].j = ProductIndex(product), !.proc[p].pc = "req"],
                   "casting", p)
      [] me.pc = "req" -> proc_time(s, p, "casting", d)
      [] me.pc = "proc" ->
           LET s1 == leave_machine(s, p, "casting")
               id == Len(s1.batches) + 1
               batch == ProductionBatch(short_id(s1), PRODUCT_KEYS[me.j],
                                        BATCH_SIZE_UNITS, s.now)
           IN  StorePut([s1 EXCEPT !.batches = Append(@, batch),
                                   !.proc[p].b = id, !.proc[p].pc = "put"],
                        "cast_store", p, id)
      [] me.pc = "put" ->
           ContainerGet(Goto(record_stage(TriggerStoreGet(s, "cast_store"), "casting",
                                          BATCH_SIZE_UNITS), p, "get"),
                        "slip_buffer", p, BATCH_SIZE_UNITS)

\* demolding_and_drying, fettling and kiln_firing: the batch `v` comes out of
\* store `from`, is processed on machine `key`, stamped in `field` and put
\* into store `to`.
stage(s, p, d, v, key, from, field, to) ==
    LET me == s.proc[p] IN
    CASE me.pc = "start" -> StoreGet(Goto(s, p, "get"), from, p)
      [] me.pc = "get" ->
           Request([s EXCEPT !.proc[p].b = v, !.proc[p].pc = "req"], key, p)
      [] me.pc = "req" -> proc_time(s, p, key, d)
      [] me.pc = "proc" ->
           LET s1 == leave_machine(s, p, key) IN
           StorePut([s1 EXCEPT !.batches[me.b][field] = s.now, !.proc[p].pc = "put"],
                    to, p, me.b)
      [] me.pc = "put" ->
           StoreGet(Goto(record_stage(TriggerStoreGet(s, to), key,
                                      s.batches[me.b].quantity_units), p, "get"),
                    from, p)

demolding_and_drying(s, p, d, v) ==
    stage(s, p, d, v, "demolding", "cast_store", "demolded_at", "demolded_store")

fettling(s, p, d, v) ==
    stage(s, p, d, v, "fettling", "demolded_store", "fettled_at", "fettled_store")

\* kiln_firing stamping the batch's finished_at for its firing_done
kiln_firing_misstamped(s, p, d, v) ==
    stage(s, p, d, v, "kiln", "glazed_store", "finished_at", "fired_store")

kiln_firing(s, p, d, v) ==
    stage(s, p, d, v, "kiln", "glazed_store", "firing_done", "fired_store")

\* glaze_qty of the batch the worker holds
glaze_qty(s, p) == s.products[s.batches[s.proc[p].b].product].glaze_per_batch

\* the glaze taken without the wait for its level
glaze_loop_unchecked(s, p) ==
    ContainerGet(Goto(s, p, "get_glaze"), "glaze", p, glaze_qty(s, p))

\* spray_glazing's wait for glaze: stall and poll, or take the glaze
glaze_loop(s, p) ==
    IF s.containers["glaze"].level < glaze_qty(s, p)
    THEN Timeout(Goto(record_stall(s, "glazing"), p, "poll"), p, STALL_POLL)
    ELSE ContainerGet(Goto(s, p, "get_glaze"), "glaze", p, glaze_qty(s, p))

\* the tail of spray_glazing: the stamp and the put
glazed(s, p) ==
    StorePut([s EXCEPT !.batches[s.proc[p].b].glazing_done = s.now,
                       !.proc[p].pc = "put"],
             "glazed_store", p, s.proc[p].b)

spray_glazing(s, p, d, v) ==
    LET me == s.proc[p] IN
    CASE me.pc = "start" -> StoreGet(Goto(s, p, "get"), "fettled_store", p)
      [] me.pc = "get" ->
           LET s1 == [s EXCEPT !.proc[p].b = v] IN
           IF s.products[s.batches[v].product].needs_glaze
           THEN glaze_loop(s1, p)
           ELSE glazed(s1, p)
      [] me.pc = "poll" -> glaze_loop(s, p)
      [] me.pc = "get_glaze" ->
           Request(Goto(TriggerPut(s, "glaze"), p, "req"), "glazing", p)
      [] me.pc = "req" -> proc_time(s, p, "glazing", d)
      [] me.pc = "proc" -> glazed(leave_machine(s, p, "glazing"), p)
      [] me.pc = "put" ->
           StoreGet(Goto(record_stage(TriggerStoreGet(s, "glazed_store"), "glazing",
                                      s.batches[me.b].quantity_units), p, "get"),
                    "fettled_store", p)

\* round(quantity * rate) for int(quantity * rate)
Share_rounded(quantity, rate) == (quantity * rate + 50) \div 100

\* int(quantity * rate), the rate in percent
Share(quantity, rate) == (quantity * rate) \div 100

\* the quality split and the functional tests of finishing
graded(batch, at) ==
    LET a == Share(batch.quantity_units, QUALITY.grade_a_rate)
        b == Share(batch.quantity_units, QUALITY.grade_b_rate)
        r == Share(batch.quantity_units, QUALITY.reject_rate)
    IN  [batch EXCEPT !.grade_a_units = a, !.grade_b_units = b, !.reject_units = r,
                      !.leak_test_pass = Share(a + b, QUALITY.leak_test_pass_rate),
                      !.flush_test_pass = Share(a + b, QUALITY.flush_test_pass_rate),
                      !.finished_at = at]

\* the tail of finishing without the entry in completed_batches
finished_unlogged(s, p) ==
    LET me    == s.proc[p]
        batch == s.batches[me.b]
        s2 == record_stage(s, "finishing", batch.quantity_units)
        s3 == [s2 EXCEPT !.daily_prod[batch.product] = @ + me.j]
    IN  StoreGet(Goto(s3, p, "get"), "fired_store", p)

\* the tail of finishing counting all saleable units as production
finished_counting_saleable(s, p) ==
    LET me    == s.proc[p]
        batch == s.batches[me.b]
        s1 == [s EXCEPT !.completed_batches = Append(@, me.b)]
        s2 == record_stage(s1, "finishing", batch.quantity_units)
        s3 == [s2 EXCEPT !.daily_prod[batch.product] =
                             @ + Min(batch.leak_test_pass, batch.flush_test_pass)]
    IN  StoreGet(Goto(s3, p, "get"), "fired_store", p)

\* the tail of finishing: the logs, the daily accumulator, the next get
finished(s, p) ==
    LET me    == s.proc[p]
        batch == s.batches[me.b]
        s1 == [s EXCEPT !.completed_batches = Append(@, me.b)]
        s2 == record_stage(s1, "finishing", batch.quantity_units)
        s3 == [s2 EXCEPT !.daily_prod[batch.product] = @ + me.j]
    IN  StoreGet(Goto(s3, p, "get"), "fired_store", p)

\* finishing without `if put_qty > 0`: the put is made whatever fits
finishing_put_unguarded(s, p, d, v) ==
    LET me == s.proc[p] IN
    CASE me.pc = "start" -> StoreGet(Goto(s, p, "get"), "fired_store", p)
      [] me.pc = "get" ->
           Request([s EXCEPT !.proc[p].b = v, !.proc[p].pc = "req"], "finishing", p)
      [] me.pc = "req" -> proc_time(s, p, "finishing", d)
      [] me.pc = "proc" ->
           LET s1 == leave_machine(s, p, "finishing")
               batch == graded(s1.batches[me.b], s.now)
               final_saleable == Min(batch.leak_test_pass, batch.flush_test_pass)
               fg_store == s1.containers[batch.product]
               put_qty == Min(final_saleable, fg_store.capacity - fg_store.level)
               s2 == [s1 EXCEPT !.batches[me.b] = batch, !.proc[p].j = put_qty,
                                !.proc[p].pc = "put"]
           IN  ContainerPut(s2, batch.product, p, put_qty)
      [] me.pc = "put" ->
           finished(TriggerGet(s, s.batches[me.b].product), p)

\* finishing: a fired batch is inspected, graded and its saleable units put
\* into finished goods, as many as fit
finishing(s, p, d, v) ==
    LET me == s.proc[p] IN
    CASE me.pc = "start" -> StoreGet(Goto(s, p, "get"), "fired_store", p)
      [] me.pc = "get" ->
           Request([s EXCEPT !.proc[p].b = v, !.proc[p].pc = "req"], "finishing", p)
      [] me.pc = "req" -> proc_time(s, p, "finishing", d)
      [] me.pc = "proc" ->
           LET s1 == leave_machine(s, p, "finishing")
               batch == graded(s1.batches[me.b], s.now)
               final_saleable == Min(batch.leak_test_pass, batch.flush_test_pass)
               fg_store == s1.containers[batch.product]
               put_qty == Min(final_saleable, fg_store.capacity - fg_store.level)
               s2 == [s1 EXCEPT !.batches[me.b] = batch, !.proc[p].j = put_qty,
                                !.proc[p].pc = "put"]
           IN  IF put_qty > 0 THEN ContainerPut(s2, batch.product, p, put_qty)
               ELSE finished(s2, p)
      [] me.pc = "put" ->
           finished(TriggerGet(s, s.batches[me.b].product), p)

-----------------------------------------------------------------------------
(* Demand and order fulfilment                                             *)

\* the order carrying the time of the hour before as its creation time
CustomerOrder_backdated(id, o, at) ==
    [order_id |-> id, product |-> o.product, quantity_units |-> o.quantity_units,
     is_express |-> o.is_express, created_at |-> at - 1,
     due_at |-> at + HOURS_PER_DAY * (IF o.is_express
                                      THEN DEMAND.express_lead_time_days
                                      ELSE DEMAND.std_lead_time_days),
     fulfilled_qty |-> 0, fulfilled_at |-> None,
     avail_at_pick |-> None]

CustomerOrder(id, o, at) ==
    [order_id |-> id, product |-> o.product, quantity_units |-> o.quantity_units,
     is_express |-> o.is_express, created_at |-> at,
     due_at |-> at + HOURS_PER_DAY * (IF o.is_express
                                      THEN DEMAND.express_lead_time_days
                                      ELSE DEMAND.std_lead_time_days),
     fulfilled_qty |-> 0, fulfilled_at |-> None,
     avail_at_pick |-> None]   \* history: fg level the picking worker read

\* CustomerOrder.is_complete taking any shipment for the whole order
is_complete_shipped(o) == o.fulfilled_qty > 0

\* CustomerOrder.is_complete
is_complete(o) == o.fulfilled_qty >= o.quantity_units

\* CustomerOrder.is_overdue
is_overdue(o) == o.fulfilled_at # None /\ o.fulfilled_at > o.due_at

\* `ia` is the inter-arrival time drawn, `o` the order drawn
demand_generator(s, p, ia, o) ==
    LET me == s.proc[p] IN
    CASE me.pc = "start" -> Timeout(Goto(s, p, "arrival"), p, ia)
      [] me.pc = "arrival" ->
           LET counter == s.order_counter + 1 IN
           StorePut([s EXCEPT !.order_counter = counter,
                              !.orders = Append(@, CustomerOrder(counter, o, s.now)),
                              !.proc[p].pc = "put"],
                    "order_queue", p, counter)
      [] me.pc = "put" ->
           Timeout(Goto(TriggerStoreGet(s, "order_queue"), p, "arrival"), p, ia)

\* the head of order_fulfilment's loop
next_order(s, p) == StoreGet(Goto(s, p, "get"), "order_queue", p)

\* the partial branch booking the whole order as shipped
partial_pick_whole(s, b, avail) ==
    [s EXCEPT !.orders[b].fulfilled_qty = s.orders[b].quantity_units,
              !.partial_fulfils = @ + 1]

\* the partial branch without `partial_fulfils += 1`
partial_pick_uncounted(s, b, avail) == [s EXCEPT !.orders[b].fulfilled_qty = avail]

\* the partial branch after its get: what was available is shipped and counted
partial_pick(s, b, avail) ==
    [s EXCEPT !.orders[b].fulfilled_qty = avail, !.partial_fulfils = @ + 1]

\* order_fulfilment leaving the order of a lost sale unstamped
order_fulfilment_stockout_unstamped(s, p, v) ==
    LET me == s.proc[p] IN
    CASE me.pc = "start" -> next_order(s, p)
      [] me.pc = "get" ->
           LET order == s.orders[v]
               avail == s.containers[order.product].level
               s1 == [s EXCEPT !.proc[p].b = v, !.orders[v].avail_at_pick = avail]
           IN  IF avail >= order.quantity_units
               THEN ContainerGet(Goto(s1, p, "get_full"), order.product, p,
                                 order.quantity_units)
               ELSE IF avail > 0
               THEN ContainerGet([s1 EXCEPT !.proc[p].j = avail,
                                            !.proc[p].pc = "get_partial"],
                                 order.product, p, avail)
               ELSE next_order(
                        [s1 EXCEPT !.stockout_events =
                                       Append(@, [time |-> s.now,
                                                  product |-> order.product,
                                                  quantity_units |-> order.quantity_units])],
                        p)
      [] me.pc = "get_full" ->
           next_order([TriggerPut(s, s.orders[me.b].product) EXCEPT
                           !.orders[me.b].fulfilled_qty = s.orders[me.b].quantity_units,
                           !.orders[me.b].fulfilled_at = s.now], p)
      [] me.pc = "get_partial" ->
           next_order([partial_pick(TriggerPut(s, s.orders[me.b].product), me.b, me.j)
                           EXCEPT !.orders[me.b].fulfilled_at = s.now], p)

order_fulfilment(s, p, v) ==
    LET me == s.proc[p] IN
    CASE me.pc = "start" -> next_order(s, p)
      [] me.pc = "get" ->
           LET order == s.orders[v]
               avail == s.containers[order.product].level
               s1 == [s EXCEPT !.proc[p].b = v, !.orders[v].avail_at_pick = avail]
           IN  IF avail >= order.quantity_units
               THEN ContainerGet(Goto(s1, p, "get_full"), order.product, p,
                                 order.quantity_units)
               ELSE IF avail > 0
               THEN ContainerGet([s1 EXCEPT !.proc[p].j = avail,
                                            !.proc[p].pc = "get_partial"],
                                 order.product, p, avail)
               ELSE next_order(
                        [s1 EXCEPT !.stockout_events =
                                       Append(@, [time |-> s.now,
                                                  product |-> order.product,
                                                  quantity_units |-> order.quantity_units]),
                                   !.orders[v].fulfilled_at = s.now], p)
      [] me.pc = "get_full" ->
           next_order([TriggerPut(s, s.orders[me.b].product) EXCEPT
                           !.orders[me.b].fulfilled_qty = s.orders[me.b].quantity_units,
                           !.orders[me.b].fulfilled_at = s.now], p)
      [] me.pc = "get_partial" ->
           next_order([partial_pick(TriggerPut(s, s.orders[me.b].product), me.b, me.j)
                           EXCEPT !.orders[me.b].fulfilled_at = s.now], p)

-----------------------------------------------------------------------------
(* Monitoring                                                              *)

\* _current_utilization dividing by the elapsed hours alone
current_utilization_per_line(s) ==
    [key \in MachineSet |->
        LET denom == s.now IN
        IF denom > 0
        THEN IF s.machine_busy_hr[key] >= denom THEN <<1, 1>>
             ELSE <<s.machine_busy_hr[key], denom>>
        ELSE <<0, 1>>]

\* _current_utilization: (busy hours, capacity * now) per machine group,
\* clamped to 1, and 0 when the denominator is 0
current_utilization(s) ==
    [key \in MachineSet |->
        LET denom == s.machines[key].capacity * s.now IN
        IF denom > 0
        THEN IF s.machine_busy_hr[key] >= denom THEN <<1, 1>>
             ELSE <<s.machine_busy_hr[key], denom>>
        ELSE <<0, 1>>]

snapshot(s) ==
    [day |-> s.now \div HOURS_PER_DAY,
     raw_mat |-> [m \in MaterialSet |-> s.containers[m].level],
     slip |-> s.containers["slip_buffer"].level,
     fg |-> [pr \in ProductSet |-> s.containers[pr].level],
     produced_units |-> s.daily_prod,
     wip |-> Len(s.stores["cast_store"].items) + Len(s.stores["demolded_store"].items)
             + Len(s.stores["fettled_store"].items) + Len(s.stores["glazed_store"].items)
             + Len(s.stores["fired_store"].items),
     utilization |-> current_utilization(s)]

daily_recorder(s, p) ==
    IF s.proc[p].pc = "start"
    THEN Timeout(Goto(s, p, "tick"), p, HOURS_PER_DAY)
    ELSE Timeout([s EXCEPT !.daily_snapshots = Append(@, snapshot(s)),
                           !.daily_prod = [pr \in ProductSet |-> 0]],
                 p, HOURS_PER_DAY)

-----------------------------------------------------------------------------
(* End-of-run KPIs                                                         *)

\* MetricsCollector.compute_kpis, as far as the on-time-delivery rate: the
\* production block reads b.grade_a_m2 and the order block o.quantity_m2,
\* attributes the records do not have, so the call raises AttributeError
\* unless the log concerned is empty; with an empty orders log every order
\* KPI, the rate included, is set to 0.0
compute_kpis(s) ==
    IF s.completed_batches # <<>> THEN [raised |-> TRUE, otd_rate_pct |-> None]
    ELSE IF s.orders # <<>> THEN [raised |-> TRUE, otd_rate_pct |-> None]
    ELSE [raised |-> FALSE, otd_rate_pct |-> 0]

-----------------------------------------------------------------------------
(* The event loop: env.run(until = Horizon)                                *)

head == Head(queue)

\* the next event is due before the run's end
Ready == running /\ queue # <<>> /\ head.t < Horizon

\* env.step(): the event is popped and the clock moves to its time
Popped == [State EXCEPT !.now = head.t, !.queue = Tail(queue)]

Dispatch(kind) == Ready /\ head.p[1] = kind

\* the draw a step of a stage worker consumes, if it is at its _proc_time
\* (at most MaxBreakdowns breakdowns are drawn in a run)
ProcDrawsAt(key) ==
    IF proc[head.p].pc = "req"
    THEN {d \in ProcDraws(key) : d.repair = 0 \/ Len(breakdowns) < MaxBreakdowns}
    ELSE {[base |-> 1, repair |-> 0]}

\* factory.register_processes(), called before the run
RegisterProcesses ==
    /\ running
    /\ Unregistered
    /\ Apply(register_processes(State))

SupplyMonitor ==
    /\ Dispatch("supply_monitor")
    /\ Apply(supply_monitor(Popped, head.p))

SupplierDelivery ==
    /\ Dispatch("supplier_delivery")
    /\ \E d \in (IF dproc[head.p[2]].pc = "start"
                 THEN LeadDraws(dproc[head.p[2]].material)
                 ELSE {[raw |-> 0, on_time |-> TRUE, penalty |-> 1]}) :
          Apply(supplier_delivery(Popped, head.p, d))

SlipPreparation ==
    /\ Dispatch("slip_preparation")
    /\ \E d \in ProcDrawsAt("slip_prep") : Apply(slip_preparation(Popped, head.p, d))

PressureCasting ==
    /\ Dispatch("pressure_casting")
    /\ \E d \in ProcDrawsAt("casting") :
       \E product \in (IF proc[head.p].pc = "get" THEN ProductSet
                       ELSE {PRODUCT_KEYS[1]}) :
          Apply(pressure_casting(Popped, head.p, d, product))

DemoldingAndDrying ==
    /\ Dispatch("demolding_and_drying")
    /\ \E d \in ProcDrawsAt("demolding") :
          Apply(demolding_and_drying(Popped, head.p, d, head.v))

Fettling ==
    /\ Dispatch("fettling")
    /\ \E d \in ProcDrawsAt("fettling") : Apply(fettling(Popped, head.p, d, head.v))

SprayGlazing ==
    /\ Dispatch("spray_glazing")
    /\ \E d \in ProcDrawsAt("glazing") : Apply(spray_glazing(Popped, head.p, d, head.v))

KilnFiring ==
    /\ Dispatch("kiln_firing")
    /\ \E d \in ProcDrawsAt("kiln") : Apply(kiln_firing(Popped, head.p, d, head.v))

Finishing ==
    /\ Dispatch("finishing")
    /\ \E d \in ProcDrawsAt("finishing") : Apply(finishing(Popped, head.p, d, head.v))

DemandGenerator ==
    /\ Dispatch("demand_generator")
    /\ \E ia \in ArrivalDraws :
       \E o \in (IF proc[head.p].pc = "arrival" THEN OrderDraws
                 ELSE {CHOOSE x \in OrderDraws : TRUE}) :
          Apply(demand_generator(Popped, head.p, ia, o))

OrderFulfilment ==
    /\ Dispatch("order_fulfilment")
    /\ Apply(order_fulfilment(Popped, head.p, head.v))

DailyRecorder ==
    /\ Dispatch("daily_recorder")
    /\ Apply(daily_recorder(Popped, head.p))

\* a Release event is dispatched: the waiting requests are served
MachineReleased ==
    /\ Dispatch("release")
    /\ Apply(TriggerRequest(Popped, MACHINE_KEYS[head.p[2]]))

\* run() returning with the clock left at the last event it processed
RunEnd_clock_left ==
    /\ running
    /\ ~Ready
    /\ Apply([State EXCEPT !.running = FALSE])

\* no event is left before the horizon: run() returns with now = until
RunEnd ==
    /\ running
    /\ ~Ready
    /\ Apply([State EXCEPT !.running = FALSE, !.now = Horizon])

Next ==
    \/ RegisterProcesses
    \/ SupplyMonitor
    \/ SupplierDelivery
    \/ SlipPreparation
    \/ PressureCasting
    \/ DemoldingAndDrying
    \/ Fettling
    \/ SprayGlazing
    \/ KilnFiring
    \/ Finishing
    \/ DemandGenerator
    \/ OrderFulfilment
    \/ DailyRecorder
    \/ MachineReleased
    \/ RunEnd

Spec == Init /\ [][Next]_vars

-----------------------------------------------------------------------------
(* Two runs with the same scenario, seed and configuration, side by side.  *)
(* random.seed(seed) makes the draws of the random module the same in both *)
(* runs; the identifiers come from uuid4, which reads the entropy stream.  *)

\* env.step() in the run s
Pop(s) == [s EXCEPT !.now = Head(s.queue).t, !.queue = Tail(s.queue)]

\* the process step the event e resumes in the popped state s, with the
\* draws d the random module hands out
Step(s, e, d) ==
    LET kind == e.p[1] IN
    CASE kind = "supply_monitor" -> supply_monitor(s, e.p)
      [] kind = "supplier_delivery" -> supplier_delivery(s, e.p, d.lead)
      [] kind = "slip_preparation" -> slip_preparation(s, e.p, d.proc)
      [] kind = "pressure_casting" -> pressure_casting(s, e.p, d.proc, d.product)
      [] kind = "demolding_and_drying" -> demolding_and_drying(s, e.p, d.proc, e.v)
      [] kind = "fettling" -> fettling(s, e.p, d.proc, e.v)
      [] kind = "spray_glazing" -> spray_glazing(s, e.p, d.proc, e.v)
      [] kind = "kiln_firing" -> kiln_firing(s, e.p, d.proc, e.v)
      [] kind = "finishing" -> finishing(s, e.p, d.proc, e.v)
      [] kind = "demand_generator" -> demand_generator(s, e.p, d.ia, d.order)
      [] kind = "order_fulfilment" -> order_fulfilment(s, e.p, e.v)
      [] kind = "daily_recorder" -> daily_recorder(s, e.p)
      [] kind = "release" -> TriggerRequest(s, MACHINE_KEYS[e.p[2]])

\* the machine a stage worker's _proc_time is drawn for
StageMachine(kind) ==
    CASE kind = "slip_preparation" -> "slip_prep"
      [] kind = "pressure_casting" -> "casting"
      [] kind = "demolding_and_drying" -> "demolding"
      [] kind = "fettling" -> "fettling"
      [] kind = "spray_glazing" -> "glazing"
      [] kind = "kiln_firing" -> "kiln"
      [] kind = "finishing" -> "finishing"

\* the draws the step of the head event may consume
DrawsAt ==
    LET kind == head.p[1]
        one(S) == {CHOOSE x \in S : TRUE}
    IN  [proc : IF kind \in {"supply_monitor", "supplier_delivery", "release",
                             "demand_generator", "order_fulfilment", "daily_recorder"}
                THEN {[base |-> 1, repair |-> 0]}
                ELSE ProcDrawsAt(StageMachine(kind)),
         lead : IF kind = "supplier_delivery" /\ dproc[head.p[2]].pc = "start"
                THEN LeadDraws(dproc[head.p[2]].material)
                ELSE {[raw |-> 0, on_time |-> TRUE, penalty |-> 1]},
         ia : ArrivalDraws,
         order : IF kind = "demand_generator" /\ proc[head.p].pc = "arrival"
                 THEN OrderDraws ELSE one(OrderDraws),
         product : IF kind = "pressure_casting" /\ proc[head.p].pc = "get"
                   THEN ProductSet ELSE {PRODUCT_KEYS[1]}]

\* both runs take their next event; the same seed gives both the same draws
TwinStep ==
    /\ Ready
    /\ Twinned
    /\ \E d \in DrawsAt :
          Apply([Step(Popped, head, d) EXCEPT
                     !.twin = Step(Pop(twin), Head(twin.queue), d)])

\* both runs return from run(until)
TwinEnd ==
    /\ running
    /\ ~Ready
    /\ Twinned
    /\ Apply([State EXCEPT !.running = FALSE, !.now = Horizon,
                           !.twin = [twin EXCEPT !.running = FALSE,
                                                 !.now = Horizon]])

InitTwin ==
    \E scn \in ScenarioSet : \E stream \in EntropyStreams :
        Is([register_processes(CeramicFactory(scn, 1)) EXCEPT
                !.twin = register_processes(CeramicFactory(scn, stream))])

NextTwin == TwinStep \/ TwinEnd

SpecTwin == InitTwin /\ [][NextTwin]_vars

-----------------------------------------------------------------------------
(* run_scenario: the run advanced one day at a time for SIM_DAYS days,     *)
(* followed along one stream of draws.                                     *)

\* SIM_DAYS, scaled down
SIM_DAYS == 2
SIM_DURATION == SIM_DAYS * HOURS_PER_DAY

\* the next event is due before the end of the last day's run(until)
DayReady == running /\ queue # <<>> /\ head.t < SIM_DURATION

\* the draws the seeded random module hands to the step of the head event
DayDraw == CHOOSE d \in DrawsAt : TRUE

\* env.step() within one of the calls env.run(until = (day + 1) * step); the
\* events due at the end of a day are left to the next day's call
DayStep ==
    /\ DayReady
    /\ ~Twinned
    /\ Apply(Step(Popped, head, DayDraw))

\* the last day's call returns with the clock at SIM_DURATION
DaysEnd ==
    /\ running
    /\ ~DayReady
    /\ ~Twinned
    /\ Apply([State EXCEPT !.running = FALSE, !.now = SIM_DURATION])

InitDays == \E scn \in ScenarioSet : Is(register_processes(CeramicFactory(scn, 1)))

NextDays == DayStep \/ DaysEnd

SpecDays == InitDays /\ [][NextDays]_vars

-----------------------------------------------------------------------------
(* The factory built on a product table whose products need no glaze.     *)

\* config.PRODUCTS with needs_glaze false for every product
PRODUCTS_unglazed ==
    [p \in ProductSet |-> [PRODUCTS[p] EXCEPT !.needs_glaze = FALSE]]

InitUnglazed ==
    \E scn \in ScenarioSet :
        Is([CeramicFactory(scn, 1) EXCEPT !.products = PRODUCTS_unglazed])

SpecUnglazed == InitUnglazed /\ [][Next]_vars

-----------------------------------------------------------------------------
(* run_scenario's day loop beside one call env.run(until = SIM_DURATION):  *)
(* the variables are the run advanced a day at a time, twin the run made   *)
(* by the single call; both are handed the same draws.                     *)

\* a loop whose calls each reach a day further
Until_day_after(d) == (d + 2) * HOURS_PER_DAY

\* the until of the call run_scenario makes in iteration d of its loop
Until(d) == (d + 1) * HOURS_PER_DAY

\* the call in progress has an event before its stop event
CallReady == running /\ queue # <<>> /\ head.t < Until(day)

\* the single call has an event before its stop event
SingleReady(s) == s.running /\ s.queue # <<>> /\ Head(s.queue).t < SIM_DURATION

\* env.step() in the day's call, and in the single call while it has one
CallStep ==
    /\ CallReady
    /\ Twinned
    /\ Apply([Step(Popped, head, DayDraw) EXCEPT
                  !.twin = IF SingleReady(twin)
                           THEN Step(Pop(twin), Head(twin.queue), DayDraw)
                           ELSE twin])

\* a day's call returns at its stop event, the clock at its until
CallReturns ==
    /\ running
    /\ ~CallReady
    /\ Twinned
    /\ day + 1 < SIM_DAYS
    /\ Apply([State EXCEPT !.running = FALSE, !.now = Until(day)])

\* the loop's next iteration calls env.run again
NextCall ==
    /\ ~running
    /\ Twinned
    /\ day + 1 < SIM_DAYS
    /\ Apply([State EXCEPT !.running = TRUE, !.day = day + 1])

\* the last day's call returns, and so does the single call when it has
\* nothing left before its stop event
LastCallReturns ==
    /\ running
    /\ ~CallReady
    /\ Twinned
    /\ day + 1 = SIM_DAYS
    /\ Apply([State EXCEPT
                  !.running = FALSE, !.now = Until(day),
                  !.twin = IF SingleReady(twin) THEN twin
                           ELSE [twin EXCEPT !.running = FALSE,
                                             !.now = SIM_DURATION]])

InitStepped ==
    \E scn \in ScenarioSet :
        Is([register_processes(CeramicFactory(scn, 1)) EXCEPT
                !.twin = register_processes(CeramicFactory(scn, 1))])

NextStepped == CallStep \/ CallReturns \/ NextCall \/ LastCallReturns

SpecStepped == InitStepped /\ [][NextStepped]_vars

-----------------------------------------------------------------------------
(* The day loop under fair scheduling: env.run dispatches the next event   *)
(* for as long as one is due before its until.                             *)

\* DayStep changes the state whenever its guard holds (it takes the head off
\* the queue), so its guard is what ENABLED <<DayStep>>_vars says
DayStepEnabled == DayReady /\ ~Twinned

\* WF_vars(DayStep) with its ENABLED written out as the guard, and
\* WF_vars(DaysEnd): env.run takes the next event due before its until, and
\* returns when there is none
FairScheduling ==
    /\ []<>(~DayStepEnabled) \/ []<><<DayStep>>_vars
    /\ WF_vars(DaysEnd)

SpecLive == InitDays /\ [][NextDays]_vars /\ FairScheduling

-----------------------------------------------------------------------------
(* Properties                                                              *)

Range(f) == {f[i] : i \in DOMAIN f}

\* the delivery processes of material m that were spawned and have not yet
\* recorded their delivery
InFlight(m) == {k \in DOMAIN dproc : dproc[k].material = m /\ dproc[k].pc # "done"}

\* the kaolin disruption window configured for the run (<<>>: none)
Window == SCENARIOS[scenario].kaolin_disruption
InWindow(t) == Window # <<>> /\ Window[1] <= t /\ t <= Window[2]

\* C1: in every reachable state the level of every container (raw
\* materials, slip buffer, finished goods) is at least 0 and at most the
\* container's capacity.
LevelsWithinCapacity ==
    \A c \in DOMAIN containers :
        /\ 0 <= containers[c].level
        /\ containers[c].level <= containers[c].capacity

\* C1, its case: a put that would overfill a container is waiting, and a
\* container has been drawn down to nothing
WitnessLevelsWithinCapacity ==
    /\ \E c \in DOMAIN containers :
          /\ containers[c].put_queue # <<>>
          /\ containers[c].level + Head(containers[c].put_queue).amount
                 > containers[c].capacity
    /\ \E c \in DOMAIN containers : containers[c].level = 0

\* C2: once a slip-preparation worker's availability check has succeeded,
\* no other process runs before the worker has taken every body material
\* (while it still has a material to take, the next event dispatched is its
\* own), none of its gets blocks, and so no worker is left holding some of
\* the materials while it waits for another.
SlipAcquisitionAtomic ==
    \A p \in DOMAIN proc :
        p[1] = "slip_preparation" /\ proc[p].pc = "get" =>
            /\ running /\ queue # <<>> /\ proc[p].j < Len(BODY_MATERIALS)
                   => head.p = p
            /\ \A i \in 1..Len(BODY_MATERIALS) :
                   \A w \in Range(containers[BODY_MATERIALS[i]].get_queue) : w.p # p

\* C3: for every material the delivery processes in flight, spawned by the
\* bootstrap or by the supply monitor and not yet recorded, number at most 2.
InFlightAtMostTwo ==
    \A m \in MaterialSet : Cardinality(InFlight(m)) <= MAX_PENDING

\* C4: the pending-replenishment counter of every material is at most 2 in
\* every reachable state.
PendingAtMostTwo ==
    \A m \in MaterialSet : pending_replen[m] <= MAX_PENDING

\* C4, its case: the supply monitor comes to review a material that is below
\* its reorder point while two of its orders are pending
WitnessPendingAtMostTwo ==
    /\ Dispatch("supply_monitor")
    /\ proc[head.p].pc = "tick"
    /\ \E m \in MaterialSet :
          /\ pending_replen[m] = MAX_PENDING
          /\ BelowReorderPoint(State, m)
          /\ ~Disrupted(Popped, m)

\* C5: with a kaolin disruption window configured, no kaolin delivery
\* process is spawned at a time inside the window: none that has started has
\* its ordered_at inside it, none is waiting to start inside it, and no
\* logged kaolin delivery was ordered inside it.
NoKaolinOrderInWindow ==
    /\ \A k \in DOMAIN dproc :
          dproc[k].material = "kaolin" =>
              ~InWindow(IF dproc[k].pc = "start" THEN now ELSE dproc[k].ordered_at)
    /\ \A i \in DOMAIN deliveries :
          deliveries[i].material = "kaolin" => ~InWindow(deliveries[i].ordered_at)

\* C5, its case: a review inside the window skipped kaolin, a kaolin
\* delivery ordered before the window arrived inside it, and another
\* material was ordered inside it
WitnessNoKaolinOrderInWindow ==
    /\ Window # <<>>
    /\ disruption_hours > 0
    /\ \E i \in DOMAIN deliveries :
          /\ deliveries[i].material = "kaolin"
          /\ InWindow(deliveries[i].delivered_at)
    /\ \E k \in DOMAIN dproc :
          /\ dproc[k].material # "kaolin"
          /\ dproc[k].pc # "start"
          /\ InWindow(dproc[k].ordered_at)

\* the orders a fulfilment worker has finished with
Picked == {i \in DOMAIN orders : orders[i].fulfilled_at # None}

\* C6: every order whose fulfilled_at is set has fulfilled_qty <= quantity,
\* and fulfilled_qty is 0, the finished-goods level read at the pick, or the
\* full quantity; every partial pick was counted in partial_fulfils and every
\* zero pick appended exactly one stockout event.
PickedWithinStock ==
    /\ \A i \in Picked :
          /\ orders[i].fulfilled_qty <= orders[i].quantity_units
          /\ orders[i].fulfilled_qty
                 \in {0, orders[i].avail_at_pick, orders[i].quantity_units}
          /\ orders[i].avail_at_pick = 0 => orders[i].fulfilled_qty = 0
    /\ partial_fulfils =
          Cardinality({i \in Picked : /\ 0 < orders[i].avail_at_pick
                                      /\ orders[i].avail_at_pick
                                             < orders[i].quantity_units})
    /\ Len(stockout_events) =
          Cardinality({i \in Picked : orders[i].avail_at_pick = 0})

\* C6, its case: a full pick, a partial pick and a zero pick have happened
WitnessPickedWithinStock ==
    /\ \E i \in Picked : orders[i].fulfilled_qty = orders[i].quantity_units
    /\ \E i \in Picked : /\ 0 < orders[i].fulfilled_qty
                         /\ orders[i].fulfilled_qty < orders[i].quantity_units
    /\ \E i \in Picked : orders[i].avail_at_pick = 0

\* the processes that are inside the `with` block of machine group i, in
\* their processing timeout
Processing(i) == {p \in DOMAIN proc : p[1] = PIPELINE[i] /\ proc[p].pc = "proc"}

\* C7: for every stage the processes holding a machine of its pool are never
\* more than the pool's capacity, and a process is in its processing time only
\* while it holds one; so at most count + extra_kilns batches are being fired
\* at the same time.
HoldersWithinCapacity ==
    \A i \in 1..Len(MACHINE_KEYS) :
        LET M == machines[MACHINE_KEYS[i]]
            working == Processing(i)
            users == Range(M.users)
        IN
        /\ Len(M.users) <= M.capacity
        /\ Cardinality(users) = Len(M.users)
        /\ working \subseteq users
        /\ Cardinality(working) <=
               MACHINES[MACHINE_KEYS[i]].count
               + (IF MACHINE_KEYS[i] = "kiln" THEN SCENARIOS[scenario].extra_kilns
                  ELSE 0)

\* C7, its case: with the extra kiln, two batches are being fired at once
WitnessHoldersWithinCapacity ==
    /\ SCENARIOS[scenario].extra_kilns > 0
    /\ Cardinality(Processing(MachineIndex("kiln"))) = machines["kiln"].capacity
    /\ Len(machines["kiln"].users) = machines["kiln"].capacity

\* the batches that have passed the finishing stage
Finished == {b \in DOMAIN batches : batches[b].finished_at # None}

Graded(b) == batches[b].grade_a_units + batches[b].grade_b_units
             + batches[b].reject_units

\* C8, as claimed: for every batch that has passed finishing, grade_a +
\* grade_b + reject equals the batch quantity.
GradesSumToQuantity ==
    \A b \in Finished : Graded(b) = batches[b].quantity_units

\* C8, amended: for every batch that has passed finishing, grade_a + grade_b
\* + reject is at most the batch quantity and falls short of it by at most 2
\* units (each of the three shares is truncated to a whole number).
GradesWithinTruncation ==
    \A b \in Finished :
        /\ Graded(b) <= batches[b].quantity_units
        /\ batches[b].quantity_units - Graded(b) <= 2

\* C8, its case: a finished batch whose grades fall short of its quantity
WitnessGradesWithinTruncation ==
    \E b \in Finished : Graded(b) < batches[b].quantity_units

\* the timestamps of batch b in pipeline order
Stamps(b) ==
    <<batches[b].created_at, batches[b].casting_done, batches[b].demolded_at,
      batches[b].fettled_at, batches[b].glazing_done, batches[b].firing_done,
      batches[b].finished_at>>

\* C9: for every batch the stage timestamps that are set are non-decreasing
\* in pipeline order, and none is set while an earlier one is still unset.
StampsInPipelineOrder ==
    \A b \in DOMAIN batches :
        LET at == Stamps(b) IN
        \A j \in 2..Len(at) :
            at[j] # None => \A i \in 1..(j - 1) : at[i] # None /\ at[i] <= at[j]

\* C9, its case: a batch has been stamped by every stage, a later batch by
\* some of them only
WitnessStampsInPipelineOrder ==
    /\ \E b \in Finished : batches[b].created_at < batches[b].finished_at
    /\ \E b \in DOMAIN batches :
          batches[b].fettled_at # None /\ batches[b].glazing_done = None

\* C10: the supplier-delivery log only grows by appending (no entry is ever
\* removed or changed), and every logged delivery has
\* delivered_at - ordered_at >= 4 hours.
DeliveriesAppendOnly ==
    /\ [](\A i \in DOMAIN deliveries :
             deliveries[i].delivered_at - deliveries[i].ordered_at >= MIN_LEAD_TIME)
    /\ [][/\ Len(deliveries') >= Len(deliveries)
          /\ SubSeq(deliveries', 1, Len(deliveries)) = deliveries]_vars

\* C10, its case: several deliveries are logged, one of them after exactly
\* the minimum lead time
WitnessDeliveriesAppendOnly ==
    /\ Len(deliveries) >= 3
    /\ \E i \in DOMAIN deliveries :
          deliveries[i].delivered_at - deliveries[i].ordered_at = MIN_LEAD_TIME
    /\ \E i \in DOMAIN deliveries :
          deliveries[i].delivered_at - deliveries[i].ordered_at > MIN_LEAD_TIME


\* the four event logs of the run s
EventLogs(s) == <<s.batches, s.orders, s.deliveries, s.breakdowns>>

\* C11: two runs with identical scenario, seed and configuration, stepped
\* side by side, have identical event logs (batches, orders, deliveries and
\* breakdowns, record identifiers included) at every step
TwinLogsIdentical == Twinned => EventLogs(twin) = EventLogs(State)

\* the two runs differ in nothing but the identifiers
RunWithoutIds(s) ==
    [s EXCEPT !.entropy = 0, !.twin = NoTwin,
              !.batches = [i \in 1..Len(@) |-> [@[i] EXCEPT !.batch_id = 0]],
              !.deliveries = [i \in 1..Len(@) |-> [@[i] EXCEPT !.delivery_id = 0]]]
TwinSameButIds == Twinned => RunWithoutIds(twin) = RunWithoutIds(State)


IsPrefix(a, b) == Len(a) <= Len(b) /\ SubSeq(b, 1, Len(a)) = a

\* the events of the queue q due at time t, in dispatch order
DueAt(q, t) == SelectSeq(q, LAMBDA e : e.t = t)

Scheduled == {e.p : e \in Range(queue)}

\* one step of the store k: at most one item leaves, from the front, to the
\* getter that waited longest; a new item joins at the back and a new getter
\* joins the waiters at the back; whoever put an item is scheduled to go on
StoreStepFifo(k) ==
    LET a == stores[k]
        b == stores'[k]
    IN  \E n \in {0, 1} : \E G \in {a.get_queue, Append(a.get_queue, head.p)} :
          /\ n <= Len(a.items)
          /\ IsPrefix(SubSeq(a.items, n + 1, Len(a.items)), b.items)
          /\ Len(b.items) <= Len(a.items) - n + 1
          /\ n <= Len(G)
          /\ b.get_queue = SubSeq(G, n + 1, Len(G))
          /\ n = 1 => Event(now', G[1], a.items[1]) \in Range(queue')
          /\ Len(b.items) > Len(a.items) - n =>
                 Event(now', head.p, 0) \in Range(queue')

\* C14: every inter-stage store and the order queue is first-in first-out:
\* items leave in the order they were put, a get on an empty store leaves
\* its caller waiting (unscheduled) until an item is handed to it, waiting
\* getters are served in the order they arrived, and a put never blocks
StoresAreFifo ==
    /\ [](\A k \in STORE_KEYS :
             \A i \in 1..Len(stores[k].get_queue) :
                 stores[k].get_queue[i] \notin Scheduled)
    /\ [][\A k \in STORE_KEYS :
             IF Ready THEN StoreStepFifo(k) ELSE stores'[k] = stores[k]]_vars

\* two items wait in one store while two fulfilment workers, served before,
\* wait again at the order queue
WitnessStoresAreFifo ==
    /\ \E k \in STORE_KEYS : Len(stores[k].items) >= 2
    /\ Len(stores["order_queue"].get_queue) >= 2
    /\ \E i \in 1..Len(orders) : orders[i].fulfilled_qty > 0


\* the sum of the sequence of numbers q
RECURSIVE SumSeq(_)
SumSeq(q) == IF q = <<>> THEN 0 ELSE Head(q) + SumSeq(Tail(q))

\* tonnes of m in the logged deliveries
Logged(m) ==
    SumSeq([i \in 1..Len(deliveries) |->
              IF deliveries[i].material = m THEN deliveries[i].quantity_tonnes ELSE 0])

\* tonnes of m a delivery has put into the container and not logged yet
Unlogged(m) ==
    SumSeq([i \in 1..Len(dproc) |->
              IF dproc[i].material = m /\ dproc[i].pc = "put" THEN dproc[i].qty ELSE 0])

\* C15: for every raw material, what was delivered (logged, or put and not
\* yet logged) plus the initial stock, less the current level, is what the
\* gets of slip preparation and of glazing have taken
MaterialMassBalance ==
    \A m \in MaterialSet :
        Logged(m) + Unlogged(m) + RawMaterial(scenario, m).level
            - containers[m].level = containers[m].taken

\* deliveries are logged, one is put and not logged yet, and both the slip
\* workers and the glazing workers have taken material
WitnessMaterialMassBalance ==
    /\ \E m \in MaterialSet : Unlogged(m) > 0
    /\ \A m \in MaterialSet : Logged(m) > 0 /\ containers[m].taken > 0


\* C16: the utilisation reported for every machine group, a fraction u[1]/u[2],
\* is min(1, busy hours / (capacity * now)): it lies in [0, 1], is the exact
\* ratio while that is at most 1, and is 0 when now = 0
UtilisationIsClampedRatio ==
    LET utilization == current_utilization(State) IN
    \A key \in MachineSet :
        LET u     == utilization[key]
            busy  == machine_busy_hr[key]
            denom == machines[key].capacity * now
        IN  /\ u[2] > 0 /\ 0 <= u[1] /\ u[1] <= u[2]
            /\ now = 0 => u[1] = 0
            /\ now > 0 => IF busy <= denom THEN u[1] * denom = busy * u[2]
                          ELSE u[1] = u[2]

\* a group of two lines has been busy for part of the elapsed time
WitnessUtilisationIsClampedRatio ==
    \E key \in MachineSet :
        /\ machines[key].capacity >= 2
        /\ now > 0
        /\ machine_busy_hr[key] > 0
        /\ machine_busy_hr[key] < machines[key].capacity * now


\* C17: while no process is registered, a run from 0 to Horizon leaves every
\* container, store, resource, counter and log as the constructor made it,
\* and ends with now = Horizon
IdleRunChangesNothing ==
    Unregistered =>
        /\ [State EXCEPT !.running = TRUE, !.now = 0]
               = CeramicFactory(scenario, entropy)
        /\ now = IF running THEN 0 ELSE Horizon

\* the run of a factory without processes has returned
WitnessIdleRunChangesNothing == Unregistered /\ ~running /\ now = Horizon


\* order stamps no run of Spec produces: shipped before, at and after the
\* due time, or not shipped
StampedOrders ==
    [fulfilled_at : {None} \cup 0..MaxStampHour, due_at : 0..MaxStampHour]

\* C18: for every order, is_complete is true exactly when fulfilled_qty
\* equals the ordered quantity, and is_overdue exactly when fulfilled_at is
\* set and later than due_at
OrderFlagsAsDefined ==
    /\ \A i \in 1..Len(orders) :
          LET o == orders[i] IN
          /\ is_complete(o) <=> (o.fulfilled_qty = o.quantity_units)
          /\ is_overdue(o) <=> (o.fulfilled_at >= 0 /\ o.fulfilled_at > o.due_at)
    /\ \A o \in StampedOrders :
          is_overdue(o) <=> (o.fulfilled_at >= 0 /\ o.fulfilled_at > o.due_at)

\* one order was shipped whole, one in part, and one is not picked yet
WitnessOrderFlagsAsDefined ==
    /\ \E i \in 1..Len(orders) : is_complete(orders[i])
    /\ \E i \in 1..Len(orders) :
          /\ orders[i].fulfilled_at # None
          /\ orders[i].fulfilled_qty > 0
          /\ ~is_complete(orders[i])
    /\ \E i \in 1..Len(orders) : orders[i].fulfilled_at = None


\* the orders of the log that are complete, and those of them overdue
Complete == {i \in 1..Len(orders) : is_complete(orders[i])}
Overdue == {i \in Complete : is_overdue(orders[i])}

\* C19: the KPI rollup reports the on-time-delivery rate as 100 when no
\* order is complete (an empty orders log included) and as
\* (1 - overdue / complete) * 100 otherwise
OtdRateAsSpecified ==
    LET k == compute_kpis(State) IN
    /\ ~k.raised
    /\ IF Complete = {} THEN k.otd_rate_pct = 100
       ELSE k.otd_rate_pct * Cardinality(Complete)
                = (Cardinality(Complete) - Cardinality(Overdue)) * 100


\* the step is a review of the supply monitor at a time within the window
TickInWindow ==
    /\ Dispatch("supply_monitor")
    /\ proc[head.p].pc = "tick"
    /\ InWindow(head.t)

\* the review times that fall within the window
TicksInWindow == {t \in 1..Horizon - 1 : t % REVIEW_PERIOD = 0 /\ InWindow(t)}

\* C20: disruption_hours grows by exactly the review period (4 h) at every
\* supply-monitor tick whose time lies within the disruption window, bounds
\* included, and is unchanged by every other step; once a run that passes
\* the end of the window has returned, it is 4 h for each such tick, which
\* is at least the length of the window less one review period
DisruptionHoursPerTick ==
    /\ [](~running /\ ~Unregistered =>
             /\ disruption_hours = REVIEW_PERIOD * Cardinality(TicksInWindow)
             /\ Window # <<>> =>
                    disruption_hours >= Window[2] - Window[1] - REVIEW_PERIOD)
    /\ [][disruption_hours' =
              disruption_hours + (IF TickInWindow THEN REVIEW_PERIOD ELSE 0)]_vars

\* the run with the disruption window has returned, two ticks counted
WitnessDisruptionHoursPerTick ==
    /\ ~running
    /\ Window # <<>>
    /\ now > Window[2]
    /\ disruption_hours >= 2 * REVIEW_PERIOD


\* C21: the delivery log is in arrival order: delivered_at never decreases
\* along the log, whatever the lead times of the deliveries in flight
DeliveriesInArrivalOrder ==
    \A i \in 1..Len(deliveries) : \A j \in i..Len(deliveries) :
        deliveries[i].delivered_at <= deliveries[j].delivered_at

\* of two deliveries in flight together, the one ordered no earlier is
\* logged first and the other of another material later
WitnessDeliveriesInArrivalOrder ==
    \E i \in 1..Len(deliveries) : \E j \in i + 1..Len(deliveries) :
        /\ deliveries[i].material # deliveries[j].material
        /\ deliveries[i].ordered_at >= deliveries[j].ordered_at
        /\ deliveries[i].delivered_at < deliveries[j].delivered_at
        /\ deliveries[i].delivered_at > deliveries[j].ordered_at


\* the glazing workers
Glazers == {p \in DOMAIN proc : p[1] = "spray_glazing"}

\* C22: a glazing worker that finds the glaze level sufficient takes the
\* glaze at once: no get on the glaze container is ever left waiting, and
\* the worker that has called get is scheduled to go on
GlazeGetNeverBlocks ==
    /\ containers["glaze"].get_queue = <<>>
    /\ \A p \in Glazers : proc[p].pc = "get_glaze" => p \in Scheduled

\* one glazing worker has just taken the last glaze there was, while the
\* other is at work on a batch of its own
WitnessGlazeGetNeverBlocks ==
    \E p, q \in Glazers :
        /\ proc[p].pc = "get_glaze"
        /\ proc[q].pc \in {"req", "proc"}
        /\ containers["glaze"].level < glaze_qty(State, p)

\* the fulfilment workers, and those between their get and its event
Pickers == {p \in DOMAIN proc : p[1] = "order_fulfilment"}
Picking == {p \in Pickers : proc[p].pc \in {"get_full", "get_partial"}}

\* units order i has withdrawn from the warehouse so far
Withdrawn(i) ==
    IF orders[i].fulfilled_at # None THEN orders[i].fulfilled_qty
    ELSE IF \E p \in Picking : proc[p].b = i
         THEN LET p == CHOOSE q \in Picking : proc[q].b = i
              IN  IF proc[p].pc = "get_full" THEN orders[i].quantity_units
                  ELSE proc[p].j
         ELSE 0

Depositing == {p \in DOMAIN proc : p[1] = "finishing" /\ proc[p].pc = "put"}

\* units the workers in `ps` have deposited into c and not yet counted
RECURSIVE Uncounted(_, _)
Uncounted(ps, c) ==
    IF ps = {} THEN 0
    ELSE LET p == CHOOSE q \in ps : TRUE
         IN  (IF batches[proc[p].b].product = c THEN proc[p].j ELSE 0)
                 + Uncounted(ps \ {p}, c)

\* the step in which a finishing worker grades its batch and deposits
FinishingDeposits ==
    Dispatch("finishing") /\ proc[head.p].pc = "proc" =>
        LET b     == batches'[proc[head.p].b]
            c     == b.product
            final == Min(b.leak_test_pass, b.flush_test_pass)
            qty   == Min(final, containers[c].capacity - containers[c].level)
        IN  /\ containers'[c].level = containers[c].level + qty
            /\ daily_prod'[c] = daily_prod[c]
            /\ qty > 0 => /\ proc'[head.p].j = qty
                          /\ Event(now', head.p, 0) \in Range(queue')

Delivered == {k \in 1..Len(dproc) : dproc[k].pc = "done"}

\* one more record, for material m with the quantity the process k put, and
\* pending[m] one less
LogsDelivery(k, m) ==
    /\ Len(deliveries') = Len(deliveries) + 1
    /\ SubSeq(deliveries', 1, Len(deliveries)) = deliveries
    /\ deliveries'[Len(deliveries')].material = m
    /\ deliveries'[Len(deliveries')].quantity_tonnes = dproc'[k].qty
    /\ pending_replen' = [pending_replen EXCEPT ![m] = @ - 1]
    /\ dproc'[k].pc = "done"

\* a step of a delivery process: at the end of the lead time it puts
\* min(delivery_qty_t, capacity - level), which the container takes at once,
\* and goes on at the same time; then it logs what it put
DeliveryArrives ==
    Dispatch("supplier_delivery") =>
        LET k   == head.p[2]
            m   == dproc[k].material
            C   == containers[m]
            qty == Min(SUPPLIERS[m].delivery_qty_t, C.capacity - C.level)
        IN  CASE dproc[k].pc = "transit" ->
                   /\ dproc'[k].qty = qty
                   /\ containers'[m].level = C.level + qty
                   /\ IF qty > 0
                      THEN /\ dproc'[k].pc = "put"
                           /\ Event(now', head.p, 0) \in Range(queue')
                           /\ deliveries' = deliveries
                           /\ pending_replen' = pending_replen
                      ELSE LogsDelivery(k, m)
              [] dproc[k].pc = "put" ->
                   dproc'[k].qty = dproc[k].qty /\ LogsDelivery(k, m)
              [] OTHER ->
                   deliveries' = deliveries /\ pending_replen' = pending_replen

\* C25: a delivery puts min(delivery_qty_t, capacity - level) at the end of
\* its lead time and the put never waits; it appends one record with that
\* quantity and takes one from pending[material], once: a process that
\* ended is never resumed and nothing else appends a record
DeliveryPutsWhatFits ==
    /\ [](/\ \A m \in MaterialSet : containers[m].put_queue = <<>>
          /\ \A k \in 1..Len(dproc) :
                 /\ dproc[k].pc = "put" => <<"supplier_delivery", k>> \in Scheduled
                 /\ dproc[k].pc = "done" => <<"supplier_delivery", k>> \notin Scheduled
          /\ Cardinality(Delivered) = Len(deliveries))
    /\ [][/\ DeliveryArrives
          /\ deliveries' # deliveries => Dispatch("supplier_delivery")]_vars

\* a delivery was cut to the room left in the container and logged so,
\* while another delivery is between its put and its record
WitnessDeliveryPutsWhatFits ==
    /\ \E i \in 1..Len(deliveries) :
           /\ deliveries[i].quantity_tonnes > 0
           /\ deliveries[i].quantity_tonnes
                  < SUPPLIERS[deliveries[i].material].delivery_qty_t
    /\ \E k \in 1..Len(dproc) : dproc[k].pc = "put"


\* the daily recorder has slept a day and is due at the current time
RecorderDue ==
    \E e \in Range(queue) :
        e.p[1] = "daily_recorder" /\ proc[e.p].pc = "tick" /\ e.t = now

\* units put into the finished-goods container c since construction
Deposited(c) == containers[c].level + containers[c].taken - FG_INITIAL_UNITS[c]

\* units of c the snapshots show as produced
SnapshotProduction(c) ==
    SumSeq([i \in 1..Len(daily_snapshots) |-> daily_snapshots[i].produced_units[c]])

\* the step of the daily recorder after a day's sleep: at a time 24k it
\* appends one snapshot with day index k and a copy of the accumulators, and
\* leaves the accumulators at zero; no other step appends a snapshot
RecorderSnapshots ==
    IF DayReady /\ head.p[1] = "daily_recorder" /\ proc[head.p].pc = "tick"
    THEN /\ head.t % HOURS_PER_DAY = 0
         /\ daily_snapshots' =
                Append(daily_snapshots,
                       [daily_snapshots'[Len(daily_snapshots')] EXCEPT
                            !.day = head.t \div HOURS_PER_DAY,
                            !.produced_units = daily_prod])
         /\ \A c \in ProductSet : daily_prod'[c] = 0
    ELSE daily_snapshots' = daily_snapshots

\* the snapshots are numbered 1, 2, .., and every deposit is counted once, in
\* a snapshot or in the accumulator (or is about to be, by the worker that
\* has just deposited it)
SnapshotsCountEveryDeposit ==
    /\ \A i \in 1..Len(daily_snapshots) : daily_snapshots[i].day = i
    /\ \A c \in ProductSet :
           SnapshotProduction(c) + daily_prod[c] + Uncounted(Depositing, c)
               = Deposited(c)

\* while the run goes on there is a snapshot for every day that has passed
\* (the one of the current hour may be due still)
SnapshotEveryDayWhileRunning ==
    /\ [](/\ running =>
                Len(daily_snapshots) =
                    (now \div HOURS_PER_DAY) - (IF RecorderDue THEN 1 ELSE 0)
          /\ SnapshotsCountEveryDeposit)
    /\ [][RecorderSnapshots]_vars

WitnessSnapshotAtEveryDay ==
    /\ daily_snapshots # <<>>
    /\ \E c \in ProductSet :
           /\ daily_snapshots[1].produced_units[c] > 0
           /\ daily_prod[c] > 0


\* the stage name a worker of the given kind passes to record_stall
StallStage(kind) == IF kind = "slip_preparation" THEN "slip_prep" ELSE "glazing"

\* the entries of every stall log are at least an hour apart
StallEntriesApart ==
    \A stg \in DOMAIN stall_log :
        \A i \in 1..(Len(stall_log[stg]) - 1) :
            stall_log[stg][i + 1] - stall_log[stg][i] >= STALL_POLL

\* the step of a worker of one of `kinds` that finds its material short: the
\* stall is in the stage's log, appended now unless the log's last entry is
\* less than an hour old, and the worker checks again one hour later
WorkerStalls(kinds) ==
    Ready /\ head.p[1] \in kinds /\ proc'[head.p].pc = "poll" =>
        LET stg == StallStage(head.p[1]) IN
        /\ stg \in DOMAIN stall_log
        /\ LET old == stall_log[stg]
               new == stall_log'[stg]
           IN  IF old # <<>> /\ head.t - old[Len(old)] < STALL_POLL
               THEN new = old
               ELSE new = Append(old, head.t)
        /\ Event(head.t + STALL_POLL, head.p, 0) \in Range(queue')

\* the part of C27 that holds: the stalls of the glazing workers
GlazingStallsDebounced ==
    /\ []StallEntriesApart
    /\ [][WorkerStalls({"spray_glazing"})]_vars

\* a glazing worker is waiting for glaze and its stall is logged
WitnessGlazingStallsDebounced ==
    /\ \E p \in DOMAIN proc : p[1] = "spray_glazing" /\ proc[p].pc = "poll"
    /\ stall_log["glazing"] # <<>>

\* C27: the entries of a stage's stall log are at least one hour apart, and
\* a worker of slip preparation or of glazing that stalls has its stall in
\* the log of its stage (de-bounced) and checks again exactly one hour later
StallsDebounced ==
    /\ []StallEntriesApart
    /\ [][WorkerStalls({"slip_preparation", "spray_glazing"})]_vars


\* a glazing worker is handed a batch of a product that needs no glaze
GetsUnglazed ==
    /\ Dispatch("spray_glazing")
    /\ proc[head.p].pc = "get"
    /\ ~products[batches[head.v].product].needs_glaze

\* what the glazing stage leaves alone when it skips a batch: the glaze
\* container, the machines and the busy hours; the batch is in the next
\* store at the end of the same step, with no hour passed
SkipsGlazing ==
    /\ containers'["glaze"] = containers["glaze"]
    /\ machines' = machines
    /\ machine_busy_hr' = machine_busy_hr
    /\ stores'["glazed_store"].items = Append(stores["glazed_store"].items, head.v)
    /\ now' = head.t
    /\ Event(head.t, head.p, 0) \in Range(queue')

\* the part of C28 that holds: a batch that needs no glaze takes no glaze,
\* no machine and no time, and reaches the next store with its glazing
\* timestamp set and nothing else changed; no glaze is taken in the whole run
UnglazedSkipsGlazing ==
    /\ [](/\ containers["glaze"].taken = 0
          /\ machine_busy_hr["glazing"] = 0
          /\ machines["glazing"].users = <<>>)
    /\ [][GetsUnglazed =>
              /\ SkipsGlazing
              /\ batches' = [batches EXCEPT ![head.v].glazing_done = head.t]]_vars

\* an unglazed batch has gone through the glazing stage and on to the kiln
WitnessUnglazedSkipsGlazing ==
    \E i \in 1..Len(batches) :
        /\ ~products[batches[i].product].needs_glaze
        /\ batches[i].glazing_done # None
        /\ batches[i].firing_done # None

Queued == Range(stores["order_queue"].items)

\* a step of a fulfilment worker: handed an order with no stock left it
\* stamps the order at once; otherwise it takes what it ships, goes on at
\* the same time and stamps the order then; no other step stamps an order
PickStamps ==
    /\ Dispatch("order_fulfilment") =>
         CASE proc[head.p].pc = "get" ->
                /\ orders[head.v].fulfilled_at = None
                /\ IF containers[orders[head.v].product].level = 0
                   THEN /\ orders'[head.v].fulfilled_at = head.t
                        /\ orders'[head.v].fulfilled_qty = 0
                   ELSE /\ orders'[head.v].fulfilled_at = None
                        /\ proc'[head.p].b = head.v
                        /\ Event(head.t, head.p, 0) \in Range(queue')
           [] proc[head.p].pc \in {"get_full", "get_partial"} ->
                /\ orders[proc[head.p].b].fulfilled_at = None
                /\ orders'[proc[head.p].b].fulfilled_at = head.t
           [] OTHER -> TRUE
    /\ \A i \in DOMAIN orders :
           orders'[i].fulfilled_at # orders[i].fulfilled_at =>
               /\ Dispatch("order_fulfilment")
               /\ i = (IF proc[head.p].pc = "get" THEN head.v ELSE proc[head.p].b)

\* C29: fulfilled_at is set by the worker that picked the order, in the
\* step of the pick (no stock) or in the worker's next step, which is at the
\* same time (full and partial), and to that time; an order that was not
\* picked, one left in the queue at the end of the run included, has
\* fulfilled_at = None and fulfilled_qty = 0
StampedAtThePick ==
    /\ [](/\ \A p \in Picking : Event(now, p, 0) \in Range(queue)
          /\ \A i \in 1..Len(orders) :
                 /\ i \in Queued \/ orders[i].avail_at_pick = None =>
                        orders[i].fulfilled_at = None /\ orders[i].fulfilled_qty = 0
                 /\ orders[i].fulfilled_at # None =>
                        /\ orders[i].avail_at_pick # None
                        /\ orders[i].fulfilled_at >= orders[i].created_at)
    /\ [][PickStamps]_vars

\* orders were stamped after a full, a partial and a zero pick, and another
\* order waits in the queue, unstamped
WitnessStampedAtThePick ==
    /\ \E i \in Picked : orders[i].fulfilled_qty = orders[i].quantity_units
    /\ \E i \in Picked : /\ 0 < orders[i].fulfilled_qty
                         /\ orders[i].fulfilled_qty < orders[i].quantity_units
    /\ \E i \in Picked : orders[i].avail_at_pick = 0
    /\ Queued # {}


\* pending[m] is never below zero
PendingNeverNegative == \A m \in MaterialSet : pending_replen[m] >= 0

\* C30: pending[m] is never negative and is the number of delivery processes
\* for m still in flight, the bootstrap deliveries of time 0 counted
PendingCountsInFlight ==
    /\ PendingNeverNegative
    /\ \A m \in MaterialSet : pending_replen[m] = Cardinality(InFlight(m))


\* what holds instead: the bootstrap delivery of a material is never counted
\* and its record is taken off all the same, so the counter is one short
PendingOneShort ==
    ~Unregistered =>
        \A m \in MaterialSet : pending_replen[m] = Cardinality(InFlight(m)) - 1


\* C31: every order is picked and stamped at the time it was created
\* (fulfilled_at = created_at), so none is overdue, and an order not yet
\* stamped was created at the current time: none waits while time passes
OrdersResolvedAtCreation ==
    \A i \in 1..Len(orders) :
        LET o == orders[i] IN
        /\ o.fulfilled_at # None => o.fulfilled_at = o.created_at /\ ~is_overdue(o)
        /\ o.fulfilled_at = None => o.created_at = now

\* orders were resolved by a full, a partial and a zero pick, each at its
\* creation, and a worker holds a further order it has not stamped yet
WitnessOrdersResolvedAtCreation ==
    /\ \E i \in Picked : /\ orders[i].fulfilled_qty = orders[i].quantity_units
                         /\ orders[i].created_at > 0
    /\ \E i \in Picked : /\ 0 < orders[i].fulfilled_qty
                         /\ orders[i].fulfilled_qty < orders[i].quantity_units
    /\ \E i \in Picked : orders[i].avail_at_pick = 0
    /\ \E p \in Picking : orders[proc[p].b].fulfilled_at = None


\* the stage workers that take batches out of a store
BatchWorkers == {"demolding_and_drying", "fettling", "spray_glazing",
                 "kiln_firing", "finishing"}
BatchStores == {"cast_store", "demolded_store", "fettled_store", "glazed_store",
                "fired_store"}

\* how often x occurs in the sequence q
CountIn(q, x) == Cardinality({i \in 1..Len(q) : q[i] = x})

\* what the five stores hold, store after store
StoredItems ==
    stores["cast_store"].items \o stores["demolded_store"].items
        \o stores["fettled_store"].items \o stores["glazed_store"].items
        \o stores["fired_store"].items

\* how often the batch b sits in a store
InStores(b) == CountIn(StoredItems, b)

\* the store has handed b to a worker that has not run yet
HandedOver(b) ==
    Cardinality({i \in 1..Len(queue) :
                    /\ queue[i].p[1] \in BatchWorkers
                    /\ proc[queue[i].p].pc = "get"
                    /\ queue[i].v = b})

\* the workers that hold b: between taking it and putting it on, and the
\* finishing worker until it has logged it
HeldBy(b) ==
    Cardinality({p \in DOMAIN proc :
                    /\ p[1] \in BatchWorkers
                    /\ proc[p].b = b
                    /\ \/ proc[p].pc \in {"req", "proc", "poll", "get_glaze"}
                       \/ p[1] = "finishing" /\ proc[p].pc = "put"})

\* the events by which a store has handed a batch to a worker not yet run
Handovers ==
    {i \in 1..Len(queue) :
        queue[i].p[1] \in BatchWorkers /\ proc[queue[i].p].pc = "get"}

\* the workers that hold a batch
Holders ==
    {p \in DOMAIN proc :
        /\ p[1] \in BatchWorkers
        /\ \/ proc[p].pc \in {"req", "proc", "poll", "get_glaze"}
           \/ p[1] = "finishing" /\ proc[p].pc = "put"}

\* C32: every batch is in exactly one place (a store, a worker's hands or
\* the completed-batches log): the places are as many as the batches and
\* every batch is in one; a batch has the quantity it was created with;
\* the WIP figure of a snapshot taken now is the number of batches in the
\* five stores
BatchConservation ==
    LET stored == StoredItems
        handed == Handovers
        holders == Holders
    IN  /\ Len(stored) + Cardinality(handed) + Cardinality(holders)
               + Len(completed_batches) = Len(batches)
        /\ Range(stored) \cup {queue[i].v : i \in handed}
               \cup {proc[p].b : p \in holders} \cup Range(completed_batches)
               = 1..Len(batches)
        /\ \A b \in 1..Len(batches) :
               batches[b].quantity_units = BATCH_SIZE_UNITS
        /\ snapshot(State).wip = Cardinality(Range(stored))

\* batches are in a store, handed over, held and completed at once
WitnessBatchConservation ==
    /\ \E b \in 1..Len(batches) : InStores(b) = 1
    /\ \E b \in 1..Len(batches) : HandedOver(b) = 1
    /\ \E b \in 1..Len(batches) : HeldBy(b) = 1
    /\ \E b \in 1..Len(batches) : CountIn(completed_batches, b) = 1


\* C33: the busy hours booked for a machine group never exceed the hours
\* its lines have had, capacity * now, so the utilisation is never clamped
BusyHoursWithinCapacity ==
    \A key \in MachineSet :
        machine_busy_hr[key] <= machines[key].capacity * now

\* a group has been busy on all its lines for all the time elapsed, and a
\* group of two lines for a part of it
WitnessBusyHoursWithinCapacity ==
    /\ now > 0
    /\ \E key \in MachineSet : machine_busy_hr[key] = machines[key].capacity * now
    /\ \E key \in MachineSet :
           /\ machines[key].capacity >= 2
           /\ machine_busy_hr[key] > now


\* the stage processes, each working on the machine group of its stage
StageKinds == {"slip_preparation", "pressure_casting", "demolding_and_drying",
               "fettling", "spray_glazing", "kiln_firing", "finishing"}

\* the worker processes of the stage that uses the machine group key
StageWorkers(key) ==
    {p \in DOMAIN proc : p[1] \in StageKinds /\ StageMachine(p[1]) = key}

\* C34: every stage has as many workers as its machine group has lines, the
\* kiln with its extra lines included; no request waits in a group's queue,
\* and a worker that has made its request holds a line and is scheduled
\* (register_processes numbers the workers of a stage from 1)
WorkersMatchCapacity ==
    LET scheduled == Scheduled IN
    /\ \A key \in MachineSet :
           /\ machines[key].queue = <<>>
           /\ Len(machines[key].users) <= machines[key].capacity
    /\ \A kind \in StageKinds :
           LET m == machines[StageMachine(kind)] IN
           Unregistered \/
               \A i \in 1..(m.capacity + 1) :
                   <<kind, i>> \in DOMAIN proc <=> i <= m.capacity
    /\ \A p \in DOMAIN proc :
           p[1] \in StageKinds =>
               LET m == machines[StageMachine(p[1])] IN
               /\ p[2] <= m.capacity
               /\ proc[p].pc = "req" =>
                      p \in Range(m.users) /\ p \in scheduled

\* both kilns of the optimised plant are held, one by a worker whose request
\* has just been granted
WitnessWorkersMatchCapacity ==
    /\ SCENARIOS[scenario].extra_kilns > 0
    /\ Len(machines["kiln"].users) = machines["kiln"].capacity
    /\ \E p \in StageWorkers("kiln") : proc[p].pc = "req"


\* C35: no metrics call fails: every stage name passed to record_stage or
\* record_stall is a key of the log concerned
NoMetricsCallFails == ~metrics_fault


\* the run set beside another one, its own twin slot and loop variable aside
RunAlone(s) == [s EXCEPT !.twin = NoTwin, !.day = 0]

\* the day loop has made its last call and the call has returned
DayLoopDone == Twinned /\ ~running /\ day + 1 = SIM_DAYS

NoSchedulerMisuse ==
    /\ ~scheduler_fault
    /\ \A i \in 1..Len(queue) : queue[i].t >= now
    /\ \A c \in DOMAIN containers :
          /\ \A i \in 1..Len(containers[c].put_queue) :
                Admissible(containers[c], containers[c].put_queue[i].amount)
          /\ \A i \in 1..Len(containers[c].get_queue) :
                Admissible(containers[c], containers[c].get_queue[i].amount)


\* a finishing worker has logged a batch none of whose units fitted, with no
\* put made; a pick found nothing in stock and made no get; timeouts, puts
\* and gets were issued along the way
WitnessNoSchedulerMisuse ==
    /\ ~scheduler_fault
    /\ \E p \in DOMAIN proc :
          /\ p[1] = "finishing"
          /\ proc[p].j = 0
          /\ \E i \in 1..Len(completed_batches) : completed_batches[i] = proc[p].b
          /\ LET fg == containers[batches[proc[p].b].product]
             IN  fg.level = fg.capacity
    /\ \E i \in Picked : orders[i].avail_at_pick = 0
    /\ \E i \in Picked : 0 < orders[i].fulfilled_qty
    /\ Len(deliveries) > 0
    /\ queue # <<>>


\* the workers that wait for material: stage 1 and glazing, of any scenario
MaterialWorkers ==
    {p \in UNION {ProcSet(scn) : scn \in ScenarioSet} :
        p[1] \in {"slip_preparation", "spray_glazing"}}

\* p found too little material and waits an hour to look again
Stalled(p) == p \in DOMAIN proc /\ proc[p].pc = "poll"

\* p has its material and is at its line
AtItsLine(p) == p \in DOMAIN proc /\ proc[p].pc \in {"req", "proc"}

\* the batches followed from casting to the log: the first MaxFollowed
MaxFollowed == 2
BatchSerials == 1..MaxFollowed

Created(b) == b <= Len(batches)

Completed(b) == \E i \in 1..Len(completed_batches) : completed_batches[i] = b

\* no metrics call has raised: every worker is still in its loop
WorkersAlive == ~metrics_fault

\* C38: under fair scheduling a stage-1 or glazing worker stalled for lack of
\* material eventually has it and is at its line, and every batch casting
\* created eventually reaches the completed-batches log, the workers that
\* carry it there all still in their loops
StalledWorkersProceed ==
    /\ \A p \in MaterialWorkers : Stalled(p) ~> (AtItsLine(p) /\ WorkersAlive)
    /\ \A b \in BatchSerials : Created(b) ~> (Completed(b) /\ WorkersAlive)


\* the metrics calls aside, the workers stalled within the first day get
\* their material and the first batches reach the log
FirstDayWorkProceeds ==
    /\ \A p \in MaterialWorkers :
          (Stalled(p) /\ now <= HOURS_PER_DAY) ~> AtItsLine(p)
    /\ \A b \in BatchSerials : Created(b) ~> Completed(b)

=============================================================================
